---- MODULE Spec2Model ----
(***************************************************************************)
(* Two-phase solver of cube_solver: Search.solution with its phase-1 loop, *)
(* totalDepth (phase 2), the bidirectional fallback and solutionToString,  *)
(* over the coordinate level of coordcube.py.  The cubie level             *)
(* (cubiecube.py, facecube.py, edge.py, color.py) and the contents of the  *)
(* cached pruning tables are modelled from the specification.              *)
(***************************************************************************)
EXTENDS Integers, Sequences, FiniteSets, TLC

(***************************************************************************)
(* State: the Search instance, the frames of solution and totalDepth, the  *)
(* clock and the outcome of the call.                                      *)
(***************************************************************************)
VARIABLES
  pc,                \* position in solve / solution / totalDepth / bidirectional_totalDepth
  entry, facelets, maxDepth, timeOut,   \* the call
  calls,             \* calls of solution on this Search instance so far
  ax, po, flip, twist, slice, parity, URFtoDLF, FRtoBR, URtoUL, UBtoDF, URtoDF,
  minDistPhase1, minDistPhase2,         \* the 13 arrays of the Search instance
  n, busy, depthPhase1,                 \* locals of solution
  n_td, busy_td, depthPhase2, maxDepthPhase2,   \* locals n, busy, ... of totalDepth
  s,                 \* the value of totalDepth / bidirectional_totalDepth
  clock,             \* milliseconds since tStart
  result,            \* what the call gave its caller
  ev, timeRead,      \* the last step: an axis-exhaust event, a reading of the clock
  exact,             \* no comparison so far used a saturated pruning value
  build              \* what the module and the class hold: _pruning_byte_cache, a
                     \* table being built, the thread that is not running


\* A Python list given as a tuple: indices 0..len-1.
A0(list) == [i \in 0..(Len(list) - 1) |-> list[i + 1]]

Max2(a, b) == IF a >= b THEN a ELSE b
Min2(a, b) == IF a <= b THEN a ELSE b

(***************************************************************************)
(* corner.py, edge.py, color.py: names of corners, edges and colours.      *)
(***************************************************************************)
URF == 0
UFL == 1
ULB == 2
UBR == 3
DFR == 4
DLF == 5
DBL == 6
DRB == 7

UR == 0
UF == 1
UL == 2
UB == 3
DR == 4
DF == 5
DL == 6
DB == 7
FR == 8
FL == 9
BL == 10
BR == 11

colU == 0
colR == 1
colF == 2
colD == 3
colL == 4
colB == 5

corner_values == 0..7
edge_values == 0..11

(***************************************************************************)
(* cubiecube.py: the cubie level.  A cubie cube is a record cp, co, ep, eo *)
(* of arrays over the 8 corner and 12 edge slots.                          *)
(***************************************************************************)
CubieCube == [cp |-> [i \in 0..7 |-> i], co |-> [i \in 0..7 |-> 0],
              ep |-> [i \in 0..11 |-> i], eo |-> [i \in 0..11 |-> 0]]

\* The six basic moves U, R, F, D, L, B (90 degrees clockwise).
moveCube ==
  A0(<< [cp |-> A0(<<UBR, URF, UFL, ULB, DFR, DLF, DBL, DRB>>),
         co |-> A0(<<0, 0, 0, 0, 0, 0, 0, 0>>),
         ep |-> A0(<<UB, UR, UF, UL, DR, DF, DL, DB, FR, FL, BL, BR>>),
         eo |-> A0(<<0, 0, 0, 0, 0, 0, 0, 0, 0, 0, 0, 0>>)],
        [cp |-> A0(<<DFR, UFL, ULB, URF, DRB, DLF, DBL, UBR>>),
         co |-> A0(<<2, 0, 0, 1, 1, 0, 0, 2>>),
         ep |-> A0(<<FR, UF, UL, UB, BR, DF, DL, DB, DR, FL, BL, UR>>),
         eo |-> A0(<<0, 0, 0, 0, 0, 0, 0, 0, 0, 0, 0, 0>>)],
        [cp |-> A0(<<UFL, DLF, ULB, UBR, URF, DFR, DBL, DRB>>),
         co |-> A0(<<1, 2, 0, 0, 2, 1, 0, 0>>),
         ep |-> A0(<<UR, FL, UL, UB, DR, FR, DL, DB, UF, DF, BL, BR>>),
         eo |-> A0(<<0, 1, 0, 0, 0, 1, 0, 0, 1, 1, 0, 0>>)],
        [cp |-> A0(<<URF, UFL, ULB, UBR, DLF, DBL, DRB, DFR>>),
         co |-> A0(<<0, 0, 0, 0, 0, 0, 0, 0>>),
         ep |-> A0(<<UR, UF, UL, UB, DF, DL, DB, DR, FR, FL, BL, BR>>),
         eo |-> A0(<<0, 0, 0, 0, 0, 0, 0, 0, 0, 0, 0, 0>>)],
        [cp |-> A0(<<URF, ULB, DBL, UBR, DFR, UFL, DLF, DRB>>),
         co |-> A0(<<0, 1, 2, 0, 0, 2, 1, 0>>),
         ep |-> A0(<<UR, UF, BL, UB, DR, DF, FL, DB, FR, UL, DL, BR>>),
         eo |-> A0(<<0, 0, 0, 0, 0, 0, 0, 0, 0, 0, 0, 0>>)],
        [cp |-> A0(<<URF, UFL, UBR, DRB, DFR, DLF, ULB, DBL>>),
         co |-> A0(<<0, 0, 1, 2, 0, 0, 2, 1>>),
         ep |-> A0(<<UR, UF, UL, BR, DR, DF, DL, BL, FR, FL, UB, DB>>),
         eo |-> A0(<<0, 0, 0, 1, 0, 0, 0, 1, 0, 0, 1, 1>>)] >>)

\* a.cornerMultiply(b): (a*b).cp[i] = a.cp[b.cp[i]], twists add mod 3.
cornerMultiply(a, b) ==
  [a EXCEPT !.cp = [c \in 0..7 |-> a.cp[b.cp[c]]],
            !.co = [c \in 0..7 |-> (a.co[b.cp[c]] + b.co[c]) % 3]]

\* a.edgeMultiply(b): (a*b).ep[i] = a.ep[b.ep[i]], flips add mod 2.
edgeMultiply(a, b) ==
  [a EXCEPT !.ep = [e \in 0..11 |-> a.ep[b.ep[e]]],
            !.eo = [e \in 0..11 |-> (b.eo[e] + a.eo[b.ep[e]]) % 2]]

multiply(a, b) == edgeMultiply(cornerMultiply(a, b), b)

\* Binomial coefficient, 0 when n < k.
RECURSIVE CnkLoop(_, _, _, _, _)
CnkLoop(m, k, acc, i, j) ==
  IF i = m - k THEN acc ELSE CnkLoop(m, k, (acc * i) \div j, i - 1, j + 1)

Cnk(m, k) ==
  IF m < k THEN 0
  ELSE CnkLoop(m, IF k > m \div 2 THEN m - k ELSE k, 1, m, 1)

\* Left and right rotation of arr[l..r].
rotateLeft(arr, l, r) ==
  [i \in DOMAIN arr |->
     IF l <= i /\ i < r THEN arr[i + 1] ELSE IF i = r THEN arr[l] ELSE arr[i]]

rotateRight(arr, l, r) ==
  [i \in DOMAIN arr |->
     IF l < i /\ i <= r THEN arr[i - 1] ELSE IF i = l THEN arr[r] ELSE arr[i]]

\* while arr[j] != target: rotateLeft(arr, 0, j); k += 1
RECURSIVE RotCount(_, _, _, _)
RotCount(arr, j, target, k) ==
  IF arr[j] = target THEN [arr |-> arr, k |-> k]
  ELSE RotCount(rotateLeft(arr, 0, j), j, target, k + 1)

\* for j in range(top, 0, -1): count the rotations k; b = (j + 1) * b + k
RECURSIVE PermIndex(_, _, _, _)
PermIndex(arr, j, off, b) ==
  IF j < 1 THEN b
  ELSE LET r == RotCount(arr, j, j + off, 0)
       IN PermIndex(r.arr, j - 1, off, (j + 1) * b + r.k)

\* k times rotateRight(arr, 0, j)
RECURSIVE RotR(_, _, _)
RotR(arr, j, k) == IF k = 0 THEN arr ELSE RotR(rotateRight(arr, 0, j), j, k - 1)

\* for j in range(1, top + 1): k = b % (j + 1); b //= j + 1; rotate right k times
RECURSIVE PermFromIndex(_, _, _, _)
PermFromIndex(arr, j, top, b) ==
  IF j > top THEN arr
  ELSE PermFromIndex(RotR(arr, j, b % (j + 1)), j + 1, top, b \div (j + 1))

\* Ascending scan of a get...() coordinate: the pieces lo..hi, in slot order.
RECURSIVE AscScan(_, _, _, _, _, _, _, _)
AscScan(p, j, last, lo, hi, a, x, arr) ==
  IF j > last THEN [a |-> a, arr |-> arr]
  ELSE IF lo <= p[j] /\ p[j] <= hi
       THEN AscScan(p, j + 1, last, lo, hi, a + Cnk(j, x + 1), x + 1,
                    [arr EXCEPT ![x] = p[j]])
       ELSE AscScan(p, j + 1, last, lo, hi, a, x, arr)

\* Descending placement of a set...() coordinate: slot j takes piece[x] when
\* a - Cnk(j, x + 1) >= 0.
RECURSIVE DescPlace(_, _, _, _, _)
DescPlace(p, j, a, x, piece) ==
  IF j < 0 THEN p
  ELSE IF a - Cnk(j, x + 1) >= 0
       THEN DescPlace([p EXCEPT ![j] = piece[x]], j - 1, a - Cnk(j, x + 1), x - 1, piece)
       ELSE DescPlace(p, j - 1, a, x, piece)

\* x = 0; for j ascending: if p[j] == mark: p[j] = other[x]; x += 1
RECURSIVE FillOther(_, _, _, _, _, _)
FillOther(p, j, last, mark, x, other) ==
  IF j > last THEN p
  ELSE IF p[j] = mark
       THEN FillOther([p EXCEPT ![j] = other[x]], j + 1, last, mark, x + 1, other)
       ELSE FillOther(p, j + 1, last, mark, x, other)

\* twist: base-3 number of co[URF..DBL].
RECURSIVE getTwistLoop(_, _, _)
getTwistLoop(co, i, ret) ==
  IF i >= DRB THEN ret ELSE getTwistLoop(co, i + 1, 3 * ret + co[i])

getTwist(c) == getTwistLoop(c.co, URF, 0)

RECURSIVE setTwistLoop(_, _, _, _)
setTwistLoop(co, i, tw, par) ==
  IF i < URF THEN [co EXCEPT ![DRB] = (3 - (par % 3)) % 3]
  ELSE setTwistLoop([co EXCEPT ![i] = tw % 3], i - 1, tw \div 3, par + (tw % 3))

setTwist(c, tw) == [c EXCEPT !.co = setTwistLoop(c.co, DRB - 1, tw, 0)]

\* flip: base-2 number of eo[UR..BL].
RECURSIVE getFlipLoop(_, _, _)
getFlipLoop(eo, i, ret) ==
  IF i >= BR THEN ret ELSE getFlipLoop(eo, i + 1, 2 * ret + eo[i])

getFlip(c) == getFlipLoop(c.eo, UR, 0)

RECURSIVE setFlipLoop(_, _, _, _)
setFlipLoop(eo, i, fl, par) ==
  IF i < UR THEN [eo EXCEPT ![BR] = (2 - (par % 2)) % 2]
  ELSE setFlipLoop([eo EXCEPT ![i] = fl % 2], i - 1, fl \div 2, par + (fl % 2))

setFlip(c, fl) == [c EXCEPT !.eo = setFlipLoop(c.eo, BR - 1, fl, 0)]

\* Parity of a permutation: the number of inversions mod 2.
PermParity(p, last) ==
  Cardinality({ij \in (0..last) \X (0..last) : ij[1] < ij[2] /\ p[ij[1]] > p[ij[2]]}) % 2

cornerParity(c) == PermParity(c.cp, DRB)
edgeParity(c) == PermParity(c.ep, BR)

\* FRtoBR: placement and order of the four UD-slice edges FR, FL, BL, BR.
RECURSIVE FRtoBR_Scan(_, _, _, _, _)
FRtoBR_Scan(ep, j, a, x, edge4) ==
  IF j < UR THEN [a |-> a, arr |-> edge4]
  ELSE IF FR <= ep[j] /\ ep[j] <= BR
       THEN FRtoBR_Scan(ep, j - 1, a + Cnk(11 - j, x + 1), x + 1,
                        [edge4 EXCEPT ![3 - x] = ep[j]])
       ELSE FRtoBR_Scan(ep, j - 1, a, x, edge4)

getFRtoBR(c) ==
  LET scan == FRtoBR_Scan(c.ep, BR, 0, 0, [i \in 0..3 |-> 0])
  IN 24 * scan.a + PermIndex(scan.arr, 3, 8, 0)

RECURSIVE FRtoBR_Place(_, _, _, _, _)
FRtoBR_Place(ep, j, a, x, sliceEdge) ==
  IF j > BR THEN ep
  ELSE IF a - Cnk(11 - j, x + 1) >= 0
       THEN FRtoBR_Place([ep EXCEPT ![j] = sliceEdge[3 - x]], j + 1,
                         a - Cnk(11 - j, x + 1), x - 1, sliceEdge)
       ELSE FRtoBR_Place(ep, j + 1, a, x, sliceEdge)

setFRtoBR(c, idx) ==
  LET sliceEdge == PermFromIndex(A0(<<FR, FL, BL, BR>>), 1, 3, idx % 24)
      placed == FRtoBR_Place([e \in 0..11 |-> DB], UR, idx \div 24, 3, sliceEdge)
  IN [c EXCEPT !.ep = FillOther(placed, UR, BR, DB, 0,
                                A0(<<UR, UF, UL, UB, DR, DF, DL, DB>>))]

\* URFtoDLF: placement and order of the six corners URF..DLF.
getURFtoDLF(c) ==
  LET scan == AscScan(c.cp, URF, DRB, URF, DLF, 0, 0, [i \in 0..5 |-> 0])
  IN 720 * scan.a + PermIndex(scan.arr, 5, 0, 0)

setURFtoDLF(c, idx) ==
  LET corner6 == PermFromIndex(A0(<<URF, UFL, ULB, UBR, DFR, DLF>>), 1, 5, idx % 720)
      placed == DescPlace([i \in 0..7 |-> DRB], DRB, idx \div 720, 5, corner6)
  IN [c EXCEPT !.cp = FillOther(placed, URF, DRB, DRB, 0, A0(<<DBL, DRB>>))]

\* URtoDF: placement and order of the six edges UR..DF.
getURtoDF(c) ==
  LET scan == AscScan(c.ep, UR, BR, UR, DF, 0, 0, [i \in 0..5 |-> 0])
  IN 720 * scan.a + PermIndex(scan.arr, 5, 0, 0)

setURtoDF(c, idx) ==
  LET edge6 == PermFromIndex(A0(<<UR, UF, UL, UB, DR, DF>>), 1, 5, idx % 720)
      placed == DescPlace([e \in 0..11 |-> BR], BR, idx \div 720, 5, edge6)
  IN [c EXCEPT !.ep = FillOther(placed, UR, BR, BR, 0,
                                A0(<<DL, DB, FR, FL, BL, BR>>))]

\* URtoUL and UBtoDF: placement and order of three edges each.
getURtoUL(c) ==
  LET scan == AscScan(c.ep, UR, BR, UR, UL, 0, 0, [i \in 0..2 |-> 0])
  IN 6 * scan.a + PermIndex(scan.arr, 2, 0, 0)

setURtoUL(c, idx) ==
  LET edge3 == PermFromIndex(A0(<<UR, UF, UL>>), 1, 2, idx % 6)
  IN [c EXCEPT !.ep = DescPlace([e \in 0..11 |-> BR], BR, idx \div 6, 2, edge3)]

getUBtoDF(c) ==
  LET scan == AscScan(c.ep, UR, BR, UB, DF, 0, 0, [i \in 0..2 |-> 0])
  IN 6 * scan.a + PermIndex(scan.arr, 2, UB, 0)

setUBtoDF(c, idx) ==
  LET edge3 == PermFromIndex(A0(<<UB, DR, DF>>), 1, 2, idx % 6)
  IN [c EXCEPT !.ep = DescPlace([e \in 0..11 |-> BR], BR, idx \div 6, 2, edge3)]

\* cubiecube.getURtoDF(idx1, idx2): merge of URtoUL and UBtoDF, -1 on collision.
getURtoDF_merge(idx1, idx2) ==
  LET a == setURtoUL(CubieCube, idx1)
      b == setUBtoDF(CubieCube, idx2)
  IN IF \E i \in 0..7 : a.ep[i] # BR /\ b.ep[i] # BR THEN -1
     ELSE getURtoDF([b EXCEPT !.ep = [i \in 0..11 |->
                       IF i <= 7 /\ a.ep[i] # BR THEN a.ep[i] ELSE b.ep[i]]])

(***************************************************************************)
(* color.py, facelet.py, facecube.py: the facelet level.  A cube string is *)
(* a sequence of one-character strings; Python's s[i] is s[i + 1] here.    *)
(***************************************************************************)
colors == [k \in {"U", "R", "F", "D", "L", "B"} |->
             CASE k = "U" -> colU [] k = "R" -> colR [] k = "F" -> colF
               [] k = "D" -> colD [] k = "L" -> colL [] k = "B" -> colB]

color_keys == A0(<<"U", "R", "F", "D", "L", "B">>)

\* Facelet numbers: face * 9 + position - 1, faces in the order U R F D L B.
Fc(face, k) == 9 * face + k - 1

cornerFacelet ==
  A0(<< A0(<<Fc(colU, 9), Fc(colR, 1), Fc(colF, 3)>>), A0(<<Fc(colU, 7), Fc(colF, 1), Fc(colL, 3)>>),
        A0(<<Fc(colU, 1), Fc(colL, 1), Fc(colB, 3)>>), A0(<<Fc(colU, 3), Fc(colB, 1), Fc(colR, 3)>>),
        A0(<<Fc(colD, 3), Fc(colF, 9), Fc(colR, 7)>>), A0(<<Fc(colD, 1), Fc(colL, 9), Fc(colF, 7)>>),
        A0(<<Fc(colD, 7), Fc(colB, 9), Fc(colL, 7)>>), A0(<<Fc(colD, 9), Fc(colR, 9), Fc(colB, 7)>>) >>)

edgeFacelet ==
  A0(<< A0(<<Fc(colU, 6), Fc(colR, 2)>>), A0(<<Fc(colU, 8), Fc(colF, 2)>>),
        A0(<<Fc(colU, 4), Fc(colL, 2)>>), A0(<<Fc(colU, 2), Fc(colB, 2)>>),
        A0(<<Fc(colD, 6), Fc(colR, 8)>>), A0(<<Fc(colD, 2), Fc(colF, 8)>>),
        A0(<<Fc(colD, 4), Fc(colL, 8)>>), A0(<<Fc(colD, 8), Fc(colB, 8)>>),
        A0(<<Fc(colF, 6), Fc(colR, 4)>>), A0(<<Fc(colF, 4), Fc(colL, 6)>>),
        A0(<<Fc(colB, 6), Fc(colL, 4)>>), A0(<<Fc(colB, 4), Fc(colR, 6)>>) >>)

cornerColor ==
  A0(<< A0(<<colU, colR, colF>>), A0(<<colU, colF, colL>>), A0(<<colU, colL, colB>>),
        A0(<<colU, colB, colR>>), A0(<<colD, colF, colR>>), A0(<<colD, colL, colF>>),
        A0(<<colD, colB, colL>>), A0(<<colD, colR, colB>>) >>)

edgeColor ==
  A0(<< A0(<<colU, colR>>), A0(<<colU, colF>>), A0(<<colU, colL>>), A0(<<colU, colB>>),
        A0(<<colD, colR>>), A0(<<colD, colF>>), A0(<<colD, colL>>), A0(<<colD, colB>>),
        A0(<<colF, colR>>), A0(<<colF, colL>>), A0(<<colB, colL>>), A0(<<colB, colR>>) >>)

\* FaceCube(cubeString).f: the colours of the first 54 characters.
FaceCube(cubeString) == [i \in 0..53 |-> colors[cubeString[i + 1]]]

\* FaceCube.to_String()
to_String(f) == [i \in 1..54 |-> color_keys[f[i - 1]]]

\* FaceCube.toCubieCube(): slots without a matching cubie keep URF / UR.
toCubieCube(f) ==
  LET ori(i) == IF f[cornerFacelet[i][0]] \in {colU, colD} THEN 0
                ELSE IF f[cornerFacelet[i][1]] \in {colU, colD} THEN 1 ELSE 2
      col1(i) == f[cornerFacelet[i][(ori(i) + 1) % 3]]
      col2(i) == f[cornerFacelet[i][(ori(i) + 2) % 3]]
      cmatch(i) == {j \in corner_values : col1(i) = cornerColor[j][1] /\ col2(i) = cornerColor[j][2]}
      cj(i) == CHOOSE j \in cmatch(i) : \A k \in cmatch(i) : j <= k
      e0(i) == f[edgeFacelet[i][0]]
      e1(i) == f[edgeFacelet[i][1]]
      ematch(i) == {j \in edge_values : \/ e0(i) = edgeColor[j][0] /\ e1(i) = edgeColor[j][1]
                                        \/ e0(i) = edgeColor[j][1] /\ e1(i) = edgeColor[j][0]}
      ej(i) == CHOOSE j \in ematch(i) : \A k \in ematch(i) : j <= k
  IN [cp |-> [i \in 0..7 |-> IF cmatch(i) = {} THEN URF ELSE cj(i)],
      co |-> [i \in 0..7 |-> IF cmatch(i) = {} THEN 0 ELSE ori(i) % 3],
      ep |-> [i \in 0..11 |-> IF ematch(i) = {} THEN UR ELSE ej(i)],
      eo |-> [i \in 0..11 |-> IF ematch(i) = {} THEN 0
                              ELSE IF e0(i) = edgeColor[ej(i)][0] /\ e1(i) = edgeColor[ej(i)][1]
                                   THEN 0 ELSE 1]]

\* CubieCube.toFaceCube()
toFaceCube(c) ==
  LET cornerAt(k) == {<<i, o>> \in (0..7) \X (0..2) : cornerFacelet[i][(o + c.co[i]) % 3] = k}
      edgeAt(k) == {<<i, o>> \in (0..11) \X (0..1) : edgeFacelet[i][(o + c.eo[i]) % 2] = k}
  IN [k \in 0..53 |->
        IF cornerAt(k) # {}
        THEN LET h == CHOOSE h \in cornerAt(k) : TRUE IN cornerColor[c.cp[h[1]]][h[2]]
        ELSE IF edgeAt(k) # {}
             THEN LET h == CHOOSE h \in edgeAt(k) : TRUE IN edgeColor[c.ep[h[1]]][h[2]]
             ELSE k \div 9]

RECURSIVE SumTo(_, _)
SumTo(a, last) == IF last < 0 THEN 0 ELSE a[last] + SumTo(a, last - 1)

\* CubieCube.verify(): 0 or the code of the first broken invariant.
cubie_verify(c) ==
  IF \E e \in edge_values : Cardinality({i \in edge_values : c.ep[i] = e}) # 1 THEN -2
  ELSE IF SumTo(c.eo, 11) % 2 # 0 THEN -3
  ELSE IF \E k \in corner_values : Cardinality({i \in corner_values : c.cp[i] = k}) # 1 THEN -4
  ELSE IF SumTo(c.co, 7) % 3 # 0 THEN -5
  ELSE IF edgeParity(c) # cornerParity(c) THEN -6
  ELSE 0

\* The colour census shared by tools.verify and Search.solution: indices
\* 0..53 only; a missing index or a foreign character raises inside the try.
CensusFails(cubeString) ==
  \/ Len(cubeString) < 54
  \/ \E i \in 1..54 : cubeString[i] \notin DOMAIN colors
  \/ \E k \in 0..5 : Cardinality({i \in 1..54 : colors[cubeString[i]] = k}) # 9

\* tools.verify(cubeString)
verify(cubeString) ==
  IF CensusFails(cubeString) THEN -1
  ELSE CHOOSE v \in {cubie_verify(cc) : cc \in {toCubieCube(FaceCube(cubeString))}} : TRUE

(***************************************************************************)
(* coordcube.py: the coordinate level.                                     *)
(***************************************************************************)
N_TWIST == 2187
N_FLIP == 2048
N_SLICE1 == 495
N_SLICE2 == 24
N_PARITY == 2
N_URFtoDLF == 20160
N_FRtoBR == 11880
N_URtoUL == 1320
N_UBtoDF == 1320
N_URtoDF == 20160
N_MOVE == 18

\* CoordCube(c): the coordinates of a cubie cube.
CoordCube(c) ==
  [twist |-> getTwist(c), flip |-> getFlip(c), parity |-> cornerParity(c),
   FRtoBR |-> getFRtoBR(c), URFtoDLF |-> getURFtoDLF(c), URtoUL |-> getURtoUL(c),
   UBtoDF |-> getUBtoDF(c), URtoDF |-> getURtoDF(c)]

\* k successive multiplications by moveCube[j], as in the table builders.
RECURSIVE cornerTurns(_, _, _)
cornerTurns(a, j, k) ==
  IF k = 0 THEN a ELSE cornerTurns(cornerMultiply(a, moveCube[j]), j, k - 1)

RECURSIVE edgeTurns(_, _, _)
edgeTurns(a, j, k) ==
  IF k = 0 THEN a ELSE edgeTurns(edgeMultiply(a, moveCube[j]), j, k - 1)

\* Move tables: table[i][3 * j + k] is the coordinate of (cube with
\* coordinate i) * moveCube[j]^(k + 1).
twistMove(i, m) == getTwist(cornerTurns(setTwist(CubieCube, i), m \div 3, (m % 3) + 1))

flipMove(i, m) == getFlip(edgeTurns(setFlip(CubieCube, i), m \div 3, (m % 3) + 1))

\* parityMove with a quarter turn keeping the parity and a half turn changing it.
parityMoveHalf ==
  A0(<< A0(<<0, 1, 0, 0, 1, 0, 0, 1, 0, 0, 1, 0, 0, 1, 0, 0, 1, 0>>),
        A0(<<1, 0, 1, 1, 0, 1, 1, 0, 1, 1, 0, 1, 1, 0, 1, 1, 0, 1>>) >>)

parityMove ==
  A0(<< A0(<<1, 0, 1, 1, 0, 1, 1, 0, 1, 1, 0, 1, 1, 0, 1, 1, 0, 1>>),
        A0(<<0, 1, 0, 0, 1, 0, 0, 1, 0, 0, 1, 0, 0, 1, 0, 0, 1, 0>>) >>)

FRtoBR_Move(i, m) == getFRtoBR(edgeTurns(setFRtoBR(CubieCube, i), m \div 3, (m % 3) + 1))

URFtoDLF_Move(i, m) ==
  getURFtoDLF(cornerTurns(setURFtoDLF(CubieCube, i), m \div 3, (m % 3) + 1))

URtoDF_Move(i, m) == getURtoDF(edgeTurns(setURtoDF(CubieCube, i), m \div 3, (m % 3) + 1))

URtoUL_Move(i, m) == getURtoUL(edgeTurns(setURtoUL(CubieCube, i), m \div 3, (m % 3) + 1))

UBtoDF_Move(i, m) == getUBtoDF(edgeTurns(setUBtoDF(CubieCube, i), m \div 3, (m % 3) + 1))

\* MergeURtoULandUBtoDF[uRtoUL][uBtoDF], both below 336.
MergeURtoULandUBtoDF(uRtoUL, uBtoDF) == getURtoDF_merge(uRtoUL, uBtoDF)

\* The ten moves of phase 2: the builders skip 3, 5, 6, 8, 12, 14, 15, 17.
Phase2Moves == (0..17) \ {3, 5, 6, 8, 12, 14, 15, 17}

(***************************************************************************)
(* The cached pruning tables.  An entry is the depth at which the          *)
(* breadth-first fill from index 0 reaches the index.  The model holds the *)
(* entries up to depth PrunRadius and PrunRadius + 1 for every index       *)
(* further away, which is a lower bound of the cached entry.               *)
(***************************************************************************)
MaxSmallDepth == 2

PrunRadius == MaxSmallDepth

\* The moves the fill of table t makes.
FillMoves(t) ==
  IF t \in {"Slice_Flip_Prun", "Slice_Twist_Prun"} THEN 0..(N_MOVE - 1) ELSE Phase2Moves

\* The index that move j makes of index i in the fill of table t.
NeighbourAt(t, i, j) ==
  CASE t = "Slice_Flip_Prun" ->
         N_SLICE1 * flipMove(i \div N_SLICE1, j)
            + (FRtoBR_Move((i % N_SLICE1) * 24, j) \div 24)
    [] t = "Slice_Twist_Prun" ->
         N_SLICE1 * twistMove(i \div N_SLICE1, j)
            + (FRtoBR_Move((i % N_SLICE1) * 24, j) \div 24)
    [] t = "Slice_URFtoDLF_Parity_Prun" ->
         (N_SLICE2 * URFtoDLF_Move((i \div 2) \div N_SLICE2, j)
             + FRtoBR_Move((i \div 2) % N_SLICE2, j)) * 2 + parityMove[i % 2][j]
    [] t = "Slice_URtoDF_Parity_Prun" ->
         (N_SLICE2 * URtoDF_Move((i \div 2) \div N_SLICE2, j)
             + FRtoBR_Move((i \div 2) % N_SLICE2, j)) * 2 + parityMove[i % 2][j]

\* The indices one move away from index i in the fill of table t.
Neighbours(t, i) == {NeighbourAt(t, i, j) : j \in FillMoves(t)}

\* layers[d + 1] is the set of indices filled at depth d.
RECURSIVE FillLayers(_, _, _)
FillLayers(t, layers, done) ==
  IF Len(layers) > PrunRadius THEN layers
  ELSE LET new == {i \in UNION {Neighbours(t, k) : k \in layers[Len(layers)]} :
                    i \notin done}
       IN FillLayers(t, Append(layers, {i : i \in new}), done \cup {i : i \in new})

PrunTables == {"Slice_Flip_Prun", "Slice_Twist_Prun", "Slice_URFtoDLF_Parity_Prun",
               "Slice_URtoDF_Parity_Prun"}

PrunLayers ==
  [Slice_Flip_Prun |-> FillLayers("Slice_Flip_Prun", <<{0}>>, {0}),
   Slice_Twist_Prun |-> FillLayers("Slice_Twist_Prun", <<{0}>>, {0}),
   Slice_URFtoDLF_Parity_Prun |-> FillLayers("Slice_URFtoDLF_Parity_Prun", <<{0}>>, {0}),
   Slice_URtoDF_Parity_Prun |-> FillLayers("Slice_URtoDF_Parity_Prun", <<{0}>>, {0})]

\* The depth at which index was filled, PrunRadius + 1 if later.
DepthIn(layers, index) ==
  IF \E d \in 1..Len(layers) : index \in layers[d]
  THEN (CHOOSE d \in 1..Len(layers) : index \in layers[d]) - 1
  ELSE PrunRadius + 1

PrunEntry(t, index) == DepthIn(PrunLayers[t], index)

\* The packed table: two entries in one byte, the even index in the low nibble.
PackByte(nibbles) == nibbles[0] + 16 * nibbles[1]

PrunByte(t, byte_index) == PackByte([k \in 0..1 |-> PrunEntry(t, 2 * byte_index + k)])

Nibble(byte_val, index) == IF index % 2 = 0 THEN byte_val % 16 ELSE byte_val \div 16

\* The bound of the byte cache.
CacheLimit == 200000

\* key = (id(table), byte_index): the name of a table stands for its id.
CacheKey(table, byte_index) == <<table, byte_index>>

\* The value getPruning(table, index) returns when _pruning_byte_cache is
\* cache: from the cached byte if the key is there, from the table if not.
getPruningIn(cache, table, index) ==
  LET key == CacheKey(table, index \div 2)
  IN Nibble(IF key \in DOMAIN cache THEN cache[key] ELSE PrunByte(table, index \div 2),
            index)

\* CacheAfter keeping the low half of the byte only.
CacheAfterNibble(cache, table, index) ==
  LET key == CacheKey(table, index \div 2)
  IN IF key \in DOMAIN cache \/ Cardinality(DOMAIN cache) >= CacheLimit THEN cache
     ELSE (key :> PrunByte(table, index \div 2) % 16) @@ cache

\* _pruning_byte_cache after that call: a byte that was not there is kept
\* while the cache holds fewer than CacheLimit bytes.
CacheAfter(cache, table, index) ==
  LET key == CacheKey(table, index \div 2)
  IN IF key \in DOMAIN cache \/ Cardinality(DOMAIN cache) >= CacheLimit THEN cache
     ELSE (key :> PrunByte(table, index \div 2)) @@ cache

\* The module-level dictionary of coordcube, shared by every Search instance.
_pruning_byte_cache == build.cache

\* getPruning(table, index)
getPruning(table, index) == getPruningIn(_pruning_byte_cache, table, index)

\* The second getPruning call of a statement, after getPruning(t1, i1).
getPruningNext(t1, i1, table, index) ==
  getPruningIn(CacheAfter(_pruning_byte_cache, t1, i1), table, index)

\* A looked-up value that may stand for a larger cached entry.
Saturated(h) == h > PrunRadius

(***************************************************************************)
(* The calls the model makes.                                              *)
(***************************************************************************)
\* c * the face turn m = 3 * axis + power - 1.
Turn(c, m) == edgeTurns(cornerTurns(c, m \div 3, (m % 3) + 1), m \div 3, (m % 3) + 1)

\* The solved cube after the turns ms, first to last.
RECURSIVE Scramble(_)
Scramble(ms) == IF ms = <<>> THEN CubieCube
                ELSE Turn(Scramble(SubSeq(ms, 1, Len(ms) - 1)), ms[Len(ms)])

CubeString(c) == to_String(toFaceCube(c))

SolvedString == CubeString(CubieCube)

SingleMoveStrings == {CubeString(Scramble(<<m>>)) : m \in 0..17}

\* Cubes in H that need phase 2: R2 U, U2 F2 and D' U'.
PhaseTwoStrings == {CubeString(Scramble(<<4, 0>>)), CubeString(Scramble(<<1, 7>>)),
                    CubeString(Scramble(<<11, 2>>))}

\* R D R': flip 0 and twist 56, both below 100, three moves from H.
BalancedStrings == {CubeString(Scramble(<<3, 9, 5>>))}

\* A legal cube, eleven turns from solved; after its first phase-1 turn R the
\* phase-2 hash of the search differs from that of a cube one U turn from
\* solved only in the bits of URtoDF that the hash cuts off.
AliasString == CubeString(Scramble(<<0, 7, 0, 4, 7, 4, 0, 7, 4, 1, 5>>))

Swap(str, i, j) == [str EXCEPT ![i] = str[j], ![j] = str[i]]

\* Inputs that fail the census (code 1).
CensusStrings ==
  { [SolvedString EXCEPT ![1] = "X"],      \* a foreign character
    [SolvedString EXCEPT ![1] = "R"],      \* ten R, eight U
    SubSeq(SolvedString, 1, 53),           \* too short
    <<>> }                                 \* empty

\* Inputs longer than 54 whose first 54 characters are a legal cube.
LongStrings ==
  { SolvedString \o <<"U">>, CubeString(Scramble(<<3>>)) \o <<"X", "Y">> }

\* Inputs that pass the census and fail CubieCube.verify (codes 2 to 6).
IllegalStrings ==
  { Swap(SolvedString, 1 + Fc(colF, 2), 1 + Fc(colR, 4)),                  \* edge UR twice
    CubeString([CubieCube EXCEPT !.eo[0] = 1]),                              \* one edge flipped
    Swap(SolvedString, 1 + Fc(colF, 3), 1 + Fc(colL, 3)),                  \* corner URF twice
    CubeString([CubieCube EXCEPT !.co[0] = 1]),                              \* one corner twisted
    CubeString([CubieCube EXCEPT !.ep[0] = 1, !.ep[1] = 0]) }                \* two edges exchanged

DefaultMaxDepth == 24
DefaultTimeOut == 1000

\* time.time() counts seconds; the model's clock counts milliseconds.
MsPerSecond == 1000
TickMs == 500

SmallDepths == 0..MaxSmallDepth

Call(e, f, d, t) == [entry |-> e, facelets |-> f, maxDepth |-> d, timeOut |-> t]

Calls ==
  {Call("Search.solution", f, d, DefaultTimeOut) :
     f \in {SolvedString} \cup SingleMoveStrings, d \in SmallDepths}
  \cup {Call("Search.solution", f, DefaultMaxDepth, DefaultTimeOut) :
          f \in SingleMoveStrings \cup PhaseTwoStrings}
  \cup {Call("Search.solution", f, d, DefaultTimeOut) :
          f \in PhaseTwoStrings, d \in SmallDepths}
  \cup {Call("Search.solution", AliasString, MaxSmallDepth, DefaultTimeOut)}
  \cup {Call("Search.solution", f, MaxSmallDepth, DefaultTimeOut) : f \in BalancedStrings}
  \cup {Call("Search.solution", SolvedString, MaxSmallDepth, t) : t \in {0, 1}}
  \cup {Call(e, f, DefaultMaxDepth, DefaultTimeOut) :
          e \in {"Search.solution", "solve"}, f \in CensusStrings \cup IllegalStrings}
  \cup {Call(e, f, MaxSmallDepth, DefaultTimeOut) :
          e \in {"Search.solution", "solve"}, f \in LongStrings}
  \cup {Call("solve", SolvedString, MaxSmallDepth, DefaultTimeOut)}
  \cup {Call("solve", f, DefaultMaxDepth, DefaultTimeOut) :
          f \in {CubeString(Scramble(<<3>>)), CubeString(Scramble(<<5>>))} \cup PhaseTwoStrings}

\* A second call on a Search instance that has been used.
RepeatCalls == {Call("Search.solution", AliasString, MaxSmallDepth, DefaultTimeOut)}
MaxCalls == 2

arrays == <<ax, po, flip, twist, slice, parity, URFtoDLF, FRtoBR, URtoUL, UBtoDF,
            URtoDF, minDistPhase1, minDistPhase2>>
call == <<entry, facelets, maxDepth, timeOut, calls>>
frame == <<n, busy, depthPhase1>>
frame_td == <<n_td, busy_td, depthPhase2, maxDepthPhase2>>
vars == <<pc, call, arrays, frame, frame_td, s, clock, result, ev, timeRead, exact, build>>

zeros == [i \in 0..30 |-> 0]
\* No table is being filled: the tables came from the cache.
NoBuild == [name |-> "", table |-> <<>>, depth |-> 0, done |-> 0, i |-> 0, j |-> 0,
            cache |-> <<>>]
NoResult == [kind |-> "none", exc |-> "", text |-> <<>>]

Init ==
  /\ \E c \in Calls :
       /\ entry = c.entry /\ facelets = c.facelets
       /\ maxDepth = c.maxDepth /\ timeOut = c.timeOut
       /\ pc = IF c.entry = "solve" THEN "solve" ELSE "solution"
  /\ calls = 1
  /\ ax = zeros /\ po = zeros /\ flip = zeros /\ twist = zeros /\ slice = zeros
  /\ parity = zeros /\ URFtoDLF = zeros /\ FRtoBR = zeros /\ URtoUL = zeros
  /\ UBtoDF = zeros /\ URtoDF = zeros /\ minDistPhase1 = zeros /\ minDistPhase2 = zeros
  /\ n = 0 /\ busy = FALSE /\ depthPhase1 = 0
  /\ n_td = 0 /\ busy_td = FALSE /\ depthPhase2 = 0 /\ maxDepthPhase2 = 0
  /\ s = 0 /\ clock = 0 /\ result = NoResult
  /\ ev = "" /\ timeRead = FALSE /\ exact = TRUE /\ build = NoBuild

Silent == ev' = "" /\ timeRead' = FALSE

Quiet == Silent /\ build' = build

\* The step has made one getPruning call, or two.
Looked(table, index) ==
  build' = [build EXCEPT !.cache = CacheAfter(_pruning_byte_cache, table, index)]

LookedTwice(t1, i1, t2, i2) ==
  build' = [build EXCEPT
              !.cache = CacheAfter(CacheAfter(_pruning_byte_cache, t1, i1), t2, i2)]

\* solution returns text: to solve if solve made the call.
Return(text) ==
  /\ result' = [kind |-> "returned", exc |-> "", text |-> text]
  /\ pc' = IF entry = "solve" THEN "solve_return" ELSE "done"

\* An exception leaves solution, and solve with it.
Raise(exc, text) ==
  /\ result' = [kind |-> "raised", exc |-> exc, text |-> text]
  /\ pc' = "done"

ErrorString == [k \in 1..8 |->
  CASE k = 1 -> "Error 1" [] k = 2 -> "Error 2" [] k = 3 -> "Error 3" [] k = 4 -> "Error 4"
    [] k = 5 -> "Error 5" [] k = 6 -> "Error 6" [] k = 7 -> "Error 7" [] k = 8 -> "Error 8"]

VerifyMessage == [k \in 1..6 |->
  CASE k = 1 -> "Cube definition invalid, verify() error code -1"
    [] k = 2 -> "Cube definition invalid, verify() error code -2"
    [] k = 3 -> "Cube definition invalid, verify() error code -3"
    [] k = 4 -> "Cube definition invalid, verify() error code -4"
    [] k = 5 -> "Cube definition invalid, verify() error code -5"
    [] k = 6 -> "Cube definition invalid, verify() error code -6"]

\* str.startswith("Error") on a text given in pieces
IsErrorText(text) == text # <<>> /\ text[1] \in {ErrorString[k] : k \in 1..8}

(***************************************************************************)
(* solve(facelets, max_depth, timeOut) of the package.                     *)
(***************************************************************************)
solveVerified(err) ==
  IF err # 0
  THEN Raise("ValueError", <<VerifyMessage[-err]>>)
  ELSE pc' = "solution" /\ result' = result

solve ==
  /\ pc = "solve"
  /\ \E err \in {verify(facelets)} : solveVerified(err)
  /\ Quiet
  /\ UNCHANGED <<call, arrays, frame, frame_td, s, clock, exact>>

\* strip that leaves the text as it is.
stripNothing(text) == text

\* str.strip() of a solution text: the blank that ends the last piece goes.
strip(text) ==
  IF text = <<>> THEN text
  ELSE LET last == text[Len(text)]
           init == SubSeq(text, 1, Len(text) - 1)
       IN CASE last = " " -> init
            [] last = "2 " -> Append(init, "2")
            [] last = "' " -> Append(init, "'")
            [] OTHER -> text

solveStripped(text) ==
  IF IsErrorText(text)
  THEN Raise("ValueError", text)
  ELSE result' = [result EXCEPT !.text = text] /\ pc' = "done"

solve_return ==
  /\ pc = "solve_return"
  /\ solveStripped(strip(result.text))
  /\ Quiet
  /\ UNCHANGED <<call, arrays, frame, frame_td, s, clock, exact>>

(***************************************************************************)
(* Search.solution: validation and initialisation.                         *)
(***************************************************************************)
\* The initialisation of the search from the coordinates c of the cube.
SearchInit(c) ==
  /\ po' = [po EXCEPT ![0] = 0]
  /\ ax' = [ax EXCEPT ![0] = 0]
  /\ flip' = [flip EXCEPT ![0] = c.flip]
  /\ twist' = [twist EXCEPT ![0] = c.twist]
  /\ parity' = [parity EXCEPT ![0] = c.parity]
  /\ slice' = [slice EXCEPT ![0] = c.FRtoBR \div 24]
  /\ URFtoDLF' = [URFtoDLF EXCEPT ![0] = c.URFtoDLF]
  /\ FRtoBR' = [FRtoBR EXCEPT ![0] = c.FRtoBR]
  /\ URtoUL' = [URtoUL EXCEPT ![0] = c.URtoUL]
  /\ UBtoDF' = [UBtoDF EXCEPT ![0] = c.UBtoDF]
  /\ minDistPhase1' = [minDistPhase1 EXCEPT ![1] = 1]
  /\ n' = 0 /\ busy' = FALSE /\ depthPhase1' = 1
  /\ clock' = 0
  /\ pc' = "phase1" /\ result' = result
  /\ UNCHANGED <<URtoDF, minDistPhase2>>

ReturnError(k) ==
  /\ Return(<<ErrorString[k]>>)
  /\ UNCHANGED <<ax, po, flip, twist, slice, parity, URFtoDLF, FRtoBR, URtoUL, UBtoDF,
                 URtoDF, minDistPhase1, minDistPhase2, frame, clock>>

Verified(cc, v) ==
  IF v # 0 THEN ReturnError(-v) ELSE \E c \in {CoordCube(cc)} : SearchInit(c)

Converted(cc) == \E v \in {cubie_verify(cc)} : Verified(cc, v)

Validate ==
  /\ pc = "solution"
  /\ Quiet
  /\ UNCHANGED <<call, frame_td, s, exact>>
  /\ IF CensusFails(facelets)
     THEN ReturnError(1)
     ELSE \E cc \in {toCubieCube(FaceCube(facelets))} : Converted(cc)

(***************************************************************************)
(* Search.solution: the phase-1 loop.  One step is one pass of the inner   *)
(* loop; Phase1Coords is the code after it.                                *)
(***************************************************************************)
\* The heuristic value and the bound it is compared with decide the same way
\* for the cached entry the value stands for.
CompareExact(bound, h) == ~(h >= PrunRadius /\ h <= PrunRadius + 1 /\ bound > h)

\* Phase1Deeper with >= for >.
Phase1DeeperLate == depthPhase1 - n >= minDistPhase1[n + 1] /\ ~busy

Phase1Deeper == depthPhase1 - n > minDistPhase1[n + 1] /\ ~busy

Phase1Exact == exact /\ (busy \/ CompareExact(depthPhase1 - n, minDistPhase1[n + 1]))

\* The axis the increment loop stops at: the next one that neither repeats the
\* axis before nor is the face opposite to it in the wrong order; 6 if none.
RECURSIVE NextAxis(_, _, _)
NextAxis(a, follows, before) ==
  IF a + 1 > 5 THEN a + 1
  ELSE IF follows /\ (before = a + 1 \/ before - 3 = a + 1)
       THEN NextAxis(a + 1, follows, before)
       ELSE a + 1

Phase1NextAxis == NextAxis(ax[n], n # 0, IF n # 0 THEN ax[n - 1] ELSE 0)

Phase1Descend ==
  /\ pc = "phase1"
  /\ Phase1Deeper
  /\ n' = n + 1
  /\ ax' = [ax EXCEPT ![n + 1] = IF ax[n] = 0 \/ ax[n] = 3 THEN 1 ELSE 0]
  /\ po' = [po EXCEPT ![n + 1] = 1]
  /\ pc' = "coords"
  /\ exact' = Phase1Exact
  /\ Quiet
  /\ UNCHANGED <<call, flip, twist, slice, parity, URFtoDLF, FRtoBR, URtoUL, UBtoDF,
                 URtoDF, minDistPhase1, minDistPhase2, busy, depthPhase1, frame_td,
                 s, clock, result>>

Phase1Power ==
  /\ pc = "phase1"
  /\ ~Phase1Deeper
  /\ po[n] + 1 <= 3
  /\ po' = [po EXCEPT ![n] = po[n] + 1]
  /\ busy' = FALSE
  /\ pc' = "coords"
  /\ exact' = Phase1Exact
  /\ Quiet
  /\ UNCHANGED <<call, ax, flip, twist, slice, parity, URFtoDLF, FRtoBR, URtoUL, UBtoDF,
                 URtoDF, minDistPhase1, minDistPhase2, n, depthPhase1, frame_td,
                 s, clock, result>>

Phase1Axis ==
  /\ pc = "phase1"
  /\ ~Phase1Deeper
  /\ po[n] + 1 > 3
  /\ Phase1NextAxis <= 5
  /\ ax' = [ax EXCEPT ![n] = Phase1NextAxis]
  /\ po' = [po EXCEPT ![n] = 1]
  /\ busy' = FALSE
  /\ pc' = "coords"
  /\ exact' = Phase1Exact
  /\ Quiet
  /\ UNCHANGED <<call, flip, twist, slice, parity, URFtoDLF, FRtoBR, URtoUL, UBtoDF,
                 URtoDF, minDistPhase1, minDistPhase2, n, depthPhase1, frame_td,
                 s, clock, result>>

\* time.time() - tStart: the clock has gone on by some amount since it was read.
ClockReadings == {clock, TickMs}

\* TimedOut with the comparison dropped.
TimedOutNever(now) == FALSE

TimedOut(now) == now > MsPerSecond * timeOut

\* DepthLimitReached one iteration late.
DepthLimitPassed == depthPhase1 > maxDepth

\* if depthPhase1 >= maxDepth: return "Error 7"
DepthLimitReached == depthPhase1 >= maxDepth

\* ax[n] > 5: every axis at depth n is used up.
Phase1Exhaust ==
  /\ pc = "phase1"
  /\ ~Phase1Deeper
  /\ po[n] + 1 > 3
  /\ Phase1NextAxis > 5
  /\ ev' = "phase1_exhaust" /\ timeRead' = TRUE /\ build' = build
  /\ exact' = Phase1Exact
  /\ \E now \in ClockReadings :
       /\ clock' = now
       /\ LET po6 == [po EXCEPT ![n] = IF ax[n] + 1 > 5 THEN po[n] + 1 ELSE 1]
              ax6 == [ax EXCEPT ![n] = 6]
          IN IF TimedOut(now)
             THEN /\ Return(<<ErrorString[8]>>)
                  /\ ax' = ax6 /\ po' = po6
                  /\ UNCHANGED <<n, busy, depthPhase1>>
             ELSE IF n = 0
             THEN IF DepthLimitReached
                  THEN /\ Return(<<ErrorString[7]>>)
                       /\ ax' = ax6 /\ po' = po6
                       /\ UNCHANGED <<n, busy, depthPhase1>>
                  ELSE /\ depthPhase1' = depthPhase1 + 1
                       /\ ax' = [ax EXCEPT ![n] = 0]
                       /\ po' = [po EXCEPT ![n] = 1]
                       /\ busy' = FALSE
                       /\ pc' = "coords" /\ result' = result
                       /\ UNCHANGED n
             ELSE /\ n' = n - 1
                  /\ busy' = TRUE
                  /\ ax' = ax6 /\ po' = po6
                  /\ pc' = "phase1" /\ result' = result
                  /\ UNCHANGED depthPhase1
  /\ UNCHANGED <<call, flip, twist, slice, parity, URFtoDLF, FRtoBR, URtoUL, UBtoDF,
                 URtoDF, minDistPhase1, minDistPhase2, frame_td, s>>

\* The adjustment of get_enhanced_heuristic without its test of flip and twist.
BalancedAnywhere(base_heuristic, fl, tw) == Max2(0, base_heuristic - 1)

\* get_enhanced_heuristic(flip, twist, slice_coord, 1)
Balanced(base_heuristic, fl, tw) ==
  IF fl < 100 /\ tw < 100 THEN Max2(0, base_heuristic - 1) ELSE base_heuristic

get_enhanced_heuristic(fl, tw, slice_coord) ==
  Balanced(Max2(getPruning("Slice_Flip_Prun", N_SLICE1 * fl + slice_coord),
                getPruningNext("Slice_Flip_Prun", N_SLICE1 * fl + slice_coord,
                               "Slice_Twist_Prun", N_SLICE1 * tw + slice_coord)),
           fl, tw)

\* The new coordinates and the new minDistPhase1; the call of totalDepth when
\* the path of length depthPhase1 has reached H.
Phase1Store(fl, tw, sl, h) ==
  /\ flip' = [flip EXCEPT ![n + 1] = fl]
  /\ twist' = [twist EXCEPT ![n + 1] = tw]
  /\ slice' = [slice EXCEPT ![n + 1] = sl]
  /\ result' = result
  /\ IF h = 0 /\ n >= depthPhase1 - 5
     THEN /\ minDistPhase1' = [minDistPhase1 EXCEPT ![n + 1] = 10]
          /\ pc' = IF n = depthPhase1 - 1 THEN "totalDepth" ELSE "phase1"
     ELSE /\ minDistPhase1' = [minDistPhase1 EXCEPT ![n + 1] = h]
          /\ pc' = "phase1"

Phase1Moved(fl, tw, sl) ==
  /\ \E h \in {get_enhanced_heuristic(fl, tw, sl)} : Phase1Store(fl, tw, sl, h)
  /\ LookedTwice("Slice_Flip_Prun", N_SLICE1 * fl + sl,
                 "Slice_Twist_Prun", N_SLICE1 * tw + sl)

Phase1Move(mv) ==
  \E fl \in {flipMove(flip[n], mv)}, tw \in {twistMove(twist[n], mv)},
     sl \in {FRtoBR_Move(slice[n] * 24, mv) \div 24} : Phase1Moved(fl, tw, sl)

Phase1Coords ==
  /\ pc = "coords"
  /\ Silent
  /\ IF n + 1 > 30
     THEN /\ Raise("IndexError", <<>>)
          /\ UNCHANGED <<flip, twist, slice, minDistPhase1, build>>
     ELSE Phase1Move(3 * ax[n] + po[n] - 1)
  /\ UNCHANGED <<call, ax, po, parity, URFtoDLF, FRtoBR, URtoUL, UBtoDF, URtoDF,
                 minDistPhase2, frame, frame_td, s, clock, exact>>

(***************************************************************************)
(* Search.totalDepth: phase 2.                                             *)
(***************************************************************************)
MoveTable(t, i, m) ==
  CASE t = "URFtoDLF_Move" -> URFtoDLF_Move(i, m)
    [] t = "FRtoBR_Move" -> FRtoBR_Move(i, m)
    [] t = "parityMove" -> parityMove[i][m]
    [] t = "URtoUL_Move" -> URtoUL_Move(i, m)
    [] t = "UBtoDF_Move" -> UBtoDF_Move(i, m)
    [] t = "URtoDF_Move" -> URtoDF_Move(i, m)
    [] t = "twistMove" -> twistMove(i, m)
    [] t = "flipMove" -> flipMove(i, m)

\* for i in range(depthPhase1): arr[i + 1] = table[arr[i]][3 * ax[i] + po[i] - 1]
RECURSIVE Replay(_, _, _)
Replay(arr, t, i) ==
  IF i >= depthPhase1 THEN arr
  ELSE Replay([arr EXCEPT ![i + 1] = MoveTable(t, arr[i], 3 * ax[i] + po[i] - 1)], t, i + 1)

Phase2Index(coord, fr, par) == (N_SLICE2 * coord + fr) * 2 + par

\* totalDepth returns v to solution.
ReturnTotalDepth(v) == s' = v /\ pc' = "after_totalDepth" /\ result' = result

\* The search of phase 2 is set up: depthPhase2 = 1, n = depthPhase1.
Phase2Setup(d, h) ==
  /\ minDistPhase2' = [minDistPhase2 EXCEPT ![d] = h, ![d + 1] = 1]
  /\ depthPhase2' = 1 /\ n_td' = d /\ busy_td' = FALSE
  /\ po' = [po EXCEPT ![d] = 0]
  /\ ax' = [ax EXCEPT ![d] = 0]
  /\ pc' = "phase2" /\ result' = result
  /\ UNCHANGED <<s, exact>>

\* From the second pruning value d2 on.
totalDepthEdges(d, M, d1, d2) ==
  IF d2 > M
  THEN /\ ReturnTotalDepth(-1)
       /\ exact' = (exact /\ ~(Saturated(d2) /\ M >= d2))
       /\ UNCHANGED <<ax, po, minDistPhase2, n_td, busy_td, depthPhase2>>
  ELSE IF Max2(d1, d2) = 0
  THEN /\ ReturnTotalDepth(d)
       /\ minDistPhase2' = [minDistPhase2 EXCEPT ![d] = 0]
       /\ UNCHANGED <<ax, po, n_td, busy_td, depthPhase2, exact>>
  ELSE Phase2Setup(d, Max2(d1, d2))

totalDepthMerged(d, M, d1, merged, fr_d, par_d) ==
  /\ URtoDF' = [URtoDF EXCEPT ![d] = merged]
  /\ \E d2 \in {getPruningNext("Slice_URFtoDLF_Parity_Prun",
                                Phase2Index(URFtoDLF'[d], fr_d, par_d),
                                "Slice_URtoDF_Parity_Prun",
                                Phase2Index(merged, fr_d, par_d))} :
       totalDepthEdges(d, M, d1, d2)
  /\ LookedTwice("Slice_URFtoDLF_Parity_Prun", Phase2Index(URFtoDLF'[d], fr_d, par_d),
                 "Slice_URtoDF_Parity_Prun", Phase2Index(merged, fr_d, par_d))

\* The second replay, of URtoUL and UBtoDF, and their merge.
totalDepthReplay2(d, M, d1, ul, ub, fr_d, par_d) ==
  /\ URtoUL' = ul /\ UBtoDF' = ub
  /\ IF ul[d] >= 336 \/ ub[d] >= 336
     THEN /\ Raise("IndexError", <<>>)
          /\ Looked("Slice_URFtoDLF_Parity_Prun", Phase2Index(URFtoDLF'[d], fr_d, par_d))
          /\ UNCHANGED <<ax, po, URtoDF, minDistPhase2, n_td, busy_td, depthPhase2, s, exact>>
     ELSE \E merged \in {MergeURtoULandUBtoDF(ul[d], ub[d])} :
            totalDepthMerged(d, M, d1, merged, fr_d, par_d)

\* From the first pruning value d1 on.
totalDepthCorners(d, M, d1, fr_d, par_d) ==
  IF d1 > M
  THEN /\ ReturnTotalDepth(-1)
       /\ Looked("Slice_URFtoDLF_Parity_Prun", Phase2Index(URFtoDLF'[d], fr_d, par_d))
       /\ exact' = (exact /\ ~(Saturated(d1) /\ M >= d1))
       /\ UNCHANGED <<ax, po, URtoUL, UBtoDF, URtoDF, minDistPhase2, n_td, busy_td,
                      depthPhase2>>
  ELSE \E ul \in {Replay(URtoUL, "URtoUL_Move", 0)},
          ub \in {Replay(UBtoDF, "UBtoDF_Move", 0)} :
         totalDepthReplay2(d, M, d1, ul, ub, fr_d, par_d)

\* The first replay, of URFtoDLF, FRtoBR and parity.
totalDepthReplay1(d, M, urf, fr, par) ==
  /\ maxDepthPhase2' = M
  /\ URFtoDLF' = urf /\ FRtoBR' = fr /\ parity' = par
  /\ \E d1 \in {getPruning("Slice_URFtoDLF_Parity_Prun",
                             Phase2Index(urf[d], fr[d], par[d]))} :
       totalDepthCorners(d, M, d1, fr[d], par[d])

\* Phase2Limit without the moves of phase 1 taken off.
Phase2LimitLoose(d) == Min2(10, maxDepth)

\* maxDepthPhase2 = min(10, maxDepth - depthPhase1)
Phase2Limit(d) == Min2(10, maxDepth - d)

totalDepth ==
  /\ pc = "totalDepth"
  /\ Silent
  /\ \E urf \in {Replay(URFtoDLF, "URFtoDLF_Move", 0)},
        fr \in {Replay(FRtoBR, "FRtoBR_Move", 0)},
        par \in {Replay(parity, "parityMove", 0)} :
       totalDepthReplay1(depthPhase1, Phase2Limit(depthPhase1), urf, fr, par)
  /\ UNCHANGED <<call, flip, twist, slice, minDistPhase1, frame, clock>>

Phase2Deeper == depthPhase1 + depthPhase2 - n_td > minDistPhase2[n_td + 1] /\ ~busy_td

Phase2Exact ==
  exact /\ (busy_td \/ ~(Saturated(minDistPhase2[n_td + 1])
                          /\ depthPhase1 + depthPhase2 - n_td > minDistPhase2[n_td + 1]))

\* In phase 2 the faces U and D turn by any power, the others by 180 degrees.
UorD(a) == a = 0 \/ a = 3

\* Phase2PowerStep with every face turning by quarter turns.
Phase2QuarterStep == IF UorD(ax[n_td]) THEN 1 ELSE 1

Phase2PowerStep == IF UorD(ax[n_td]) THEN 1 ELSE 2

Phase2NextAxis ==
  NextAxis(ax[n_td], n_td # depthPhase1, IF n_td # 0 THEN ax[n_td - 1] ELSE 0)

Phase2Descend ==
  /\ pc = "phase2"
  /\ Phase2Deeper
  /\ n_td' = n_td + 1
  /\ ax' = [ax EXCEPT ![n_td + 1] = IF UorD(ax[n_td]) THEN 1 ELSE 0]
  /\ po' = [po EXCEPT ![n_td + 1] = IF UorD(ax[n_td]) THEN 2 ELSE 1]
  /\ pc' = "coords2"
  /\ exact' = Phase2Exact
  /\ Quiet
  /\ UNCHANGED <<call, flip, twist, slice, parity, URFtoDLF, FRtoBR, URtoUL, UBtoDF,
                 URtoDF, minDistPhase1, minDistPhase2, frame, busy_td, depthPhase2,
                 maxDepthPhase2, s, clock, result>>

Phase2Power ==
  /\ pc = "phase2"
  /\ ~Phase2Deeper
  /\ po[n_td] + Phase2PowerStep <= 3
  /\ po' = [po EXCEPT ![n_td] = po[n_td] + Phase2PowerStep]
  /\ busy_td' = FALSE
  /\ pc' = "coords2"
  /\ exact' = Phase2Exact
  /\ Quiet
  /\ UNCHANGED <<call, ax, flip, twist, slice, parity, URFtoDLF, FRtoBR, URtoUL, UBtoDF,
                 URtoDF, minDistPhase1, minDistPhase2, frame, n_td, depthPhase2,
                 maxDepthPhase2, s, clock, result>>

Phase2Axis ==
  /\ pc = "phase2"
  /\ ~Phase2Deeper
  /\ po[n_td] + Phase2PowerStep > 3
  /\ Phase2NextAxis <= 5
  /\ ax' = [ax EXCEPT ![n_td] = Phase2NextAxis]
  /\ po' = [po EXCEPT ![n_td] = IF UorD(Phase2NextAxis) THEN 1 ELSE 2]
  /\ busy_td' = FALSE
  /\ pc' = "coords2"
  /\ exact' = Phase2Exact
  /\ Quiet
  /\ UNCHANGED <<call, flip, twist, slice, parity, URFtoDLF, FRtoBR, URtoUL, UBtoDF,
                 URtoDF, minDistPhase1, minDistPhase2, frame, n_td, depthPhase2,
                 maxDepthPhase2, s, clock, result>>

\* ax[n] > 5 in phase 2: no reading of the clock.
Phase2Exhaust ==
  /\ pc = "phase2"
  /\ ~Phase2Deeper
  /\ po[n_td] + Phase2PowerStep > 3
  /\ Phase2NextAxis > 5
  /\ ev' = "phase2_exhaust" /\ timeRead' = FALSE /\ build' = build
  /\ exact' = Phase2Exact
  /\ LET po6 == [po EXCEPT ![n_td] = IF ax[n_td] + 1 > 5 THEN po[n_td] + Phase2PowerStep
                                      ELSE 2]
         ax6 == [ax EXCEPT ![n_td] = 6]
     IN IF n_td = depthPhase1
        THEN IF depthPhase2 >= maxDepthPhase2
             THEN /\ ReturnTotalDepth(-1)
                  /\ ax' = ax6 /\ po' = po6
                  /\ UNCHANGED <<n_td, busy_td, depthPhase2>>
             ELSE /\ depthPhase2' = depthPhase2 + 1
                  /\ ax' = [ax EXCEPT ![n_td] = 0]
                  /\ po' = [po EXCEPT ![n_td] = 1]
                  /\ busy_td' = FALSE
                  /\ pc' = "coords2" /\ result' = result
                  /\ UNCHANGED <<n_td, s>>
        ELSE /\ n_td' = n_td - 1
             /\ busy_td' = TRUE
             /\ ax' = ax6 /\ po' = po6
             /\ pc' = "phase2" /\ result' = result
             /\ UNCHANGED <<depthPhase2, s>>
  /\ UNCHANGED <<call, flip, twist, slice, parity, URFtoDLF, FRtoBR, URtoUL, UBtoDF,
                 URtoDF, minDistPhase1, minDistPhase2, frame, maxDepthPhase2, clock>>

Phase2Store(urf, fr, par, urdf, h) ==
  /\ URFtoDLF' = [URFtoDLF EXCEPT ![n_td + 1] = urf]
  /\ FRtoBR' = [FRtoBR EXCEPT ![n_td + 1] = fr]
  /\ parity' = [parity EXCEPT ![n_td + 1] = par]
  /\ URtoDF' = [URtoDF EXCEPT ![n_td + 1] = urdf]
  /\ minDistPhase2' = [minDistPhase2 EXCEPT ![n_td + 1] = h]
  /\ IF h = 0
     THEN ReturnTotalDepth(depthPhase1 + depthPhase2)
     ELSE pc' = "phase2" /\ result' = result /\ s' = s

Phase2Moved(urf, fr, par, urdf) ==
  /\ \E h \in {Max2(getPruning("Slice_URtoDF_Parity_Prun", Phase2Index(urdf, fr, par)),
                    getPruningNext("Slice_URtoDF_Parity_Prun", Phase2Index(urdf, fr, par),
                                   "Slice_URFtoDLF_Parity_Prun",
                                   Phase2Index(urf, fr, par)))} :
        Phase2Store(urf, fr, par, urdf, h)
  /\ LookedTwice("Slice_URtoDF_Parity_Prun", Phase2Index(urdf, fr, par),
                 "Slice_URFtoDLF_Parity_Prun", Phase2Index(urf, fr, par))

Phase2Move(mv) ==
  \E urf \in {URFtoDLF_Move(URFtoDLF[n_td], mv)}, fr \in {FRtoBR_Move(FRtoBR[n_td], mv)},
     par \in {parityMove[parity[n_td]][mv]}, urdf \in {URtoDF_Move(URtoDF[n_td], mv)} :
       Phase2Moved(urf, fr, par, urdf)

Phase2Coords ==
  /\ pc = "coords2"
  /\ Silent
  /\ IF n_td + 1 > 30
     THEN /\ Raise("IndexError", <<>>)
          /\ UNCHANGED <<URFtoDLF, FRtoBR, parity, URtoDF, minDistPhase2, s, build>>
     ELSE Phase2Move(3 * ax[n_td] + po[n_td] - 1)
  /\ UNCHANGED <<call, ax, po, flip, twist, slice, URtoUL, UBtoDF, minDistPhase1,
                 frame, frame_td, clock, exact>>

(***************************************************************************)
(* Search.solution after totalDepth, and bidirectional_totalDepth.         *)
(***************************************************************************)
AfterTotalDepth ==
  /\ pc = "after_totalDepth"
  /\ pc' = IF s < 0 /\ maxDepth - depthPhase1 <= 8 THEN "bidirectional" ELSE "junction"
  /\ Quiet
  /\ UNCHANGED <<call, arrays, frame, frame_td, s, clock, result, exact>>

\* a | b on naturals
RECURSIVE BitOr(_, _)
BitOr(a, b) ==
  IF a = 0 THEN b
  ELSE IF b = 0 THEN a
  ELSE Max2(a % 2, b % 2) + 2 * BitOr(a \div 2, b \div 2)

\* (urf << 24) | (frbr << 12) | (par << 8) | urdf, kept in two limbs:
\* the number is hi * 2^24 + lo.
Limb == 16777216

PackHash(urf, frbr, par, urdf) ==
  LET low == BitOr(BitOr(frbr * 4096, par * 256), urdf)
  IN [hi |-> BitOr(urf, low \div Limb), lo |-> low % Limb]

get_phase2_hash(depth) ==
  PackHash(URFtoDLF[depth], FRtoBR[depth], parity[depth], URtoDF[depth])

\* The fields apply_phase2_move reads back: masks 0xFFFF, 0xFFF, 1 and 0xFF.
HashFields(h) ==
  [urf |-> h.hi % 65536, frbr |-> (h.lo \div 4096) % 4096,
   par |-> (h.lo \div 256) % 2, urdf |-> h.lo % 256]

apply_phase2_move(state_hash, mv) ==
  LET f == HashFields(state_hash)
  IN PackHash(URFtoDLF_Move(f.urf, mv), FRtoBR_Move(f.frbr, mv),
              parityMove[f.par][mv], URtoDF_Move(f.urdf, mv))

is_move_redundant(prev_axis, curr_axis, depth) ==
  IF depth = 0 THEN FALSE
  ELSE IF prev_axis = curr_axis THEN TRUE
  ELSE depth > 1 /\ prev_axis + 3 = curr_axis

\* The only key of backward: the hash 0 of the solved cube.
SolvedHash == PackHash(0, 0, 0, 0)

\* The moves of the first forward level that land on a key of backward.
ForwardHits(h0) ==
  {mv \in 0..17 : /\ ~is_move_redundant(-1, mv \div 3, 0)
                  /\ apply_phase2_move(h0, mv) = SolvedHash}

\* The loop head with a frontier to expand: forward holds the start state at
\* depth 0.  A new state that is a key of backward ends the call with the
\* path of the start state and the empty backward path: nothing is appended
\* to ax and po.
ForwardLevel(h0) ==
  IF HashFields(h0).urf >= N_URFtoDLF
  THEN Raise("IndexError", <<>>) /\ s' = s
  ELSE IF h0 # SolvedHash /\ ForwardHits(h0) # {}
  THEN s' = depthPhase1 + 0 + 1 + 0 /\ pc' = "junction" /\ result' = result
  ELSE s' = s /\ pc' = "bi_backward" /\ result' = result

BiForward ==
  /\ pc = "bidirectional"
  /\ 0 < Min2(10, maxDepth - depthPhase1)
  /\ Quiet
  /\ \E h0 \in {get_phase2_hash(depthPhase1)} : ForwardLevel(h0)
  /\ UNCHANGED <<call, arrays, frame, frame_td, clock, exact>>

\* apply_phase2_move_inverse reads CoordCube.URFtoDLF_Move_inv, which the class
\* does not have.
BiBackward ==
  /\ pc = "bi_backward"
  /\ Raise("AttributeError", <<"type object 'CoordCube' has no attribute 'URFtoDLF_Move_inv'">>)
  /\ Quiet
  /\ UNCHANGED <<call, arrays, frame, frame_td, s, clock, exact>>

\* The loop head with maxDepthPhase2 <= 0: neither frontier is expanded.
BiIdle ==
  /\ pc = "bidirectional"
  /\ ~(0 < Min2(10, maxDepth - depthPhase1))
  /\ pc' = "bi_tail"
  /\ Quiet
  /\ UNCHANGED <<call, arrays, frame, frame_td, s, clock, result, exact>>

\* if not forward and not backward: return -1.  Both hold their first entry.
BiTail ==
  /\ pc = "bi_tail"
  /\ pc' = "bidirectional"
  /\ Quiet
  /\ UNCHANGED <<call, arrays, frame, frame_td, s, clock, result, exact>>

(***************************************************************************)
(* The junction test and solutionToString.                                 *)
(***************************************************************************)
ax_to_s == A0(<<"U", "R", "F", "D", "L", "B">>)
po_to_s == A0(<<"None", " ", "2 ", "' ">>)

\* The first move solutionToString cannot print, -1 if it prints all.
RECURSIVE FirstUnprintable(_, _)
FirstUnprintable(i, length) ==
  IF i >= length THEN -1
  ELSE IF ax[i] > 5 \/ po[i] > 3 \/ po[i] = 0 THEN i
  ELSE FirstUnprintable(i + 1, length)

RECURSIVE MoveText(_, _)
MoveText(i, length) ==
  IF i >= length THEN <<>>
  ELSE <<ax_to_s[ax[i]], po_to_s[po[i]]>> \o MoveText(i + 1, length)

\* return self.solutionToString(s)
solutionToString(length) ==
  LET bad == FirstUnprintable(0, length)
  IN IF bad < 0 THEN Return(MoveText(0, length))
     ELSE IF ax[bad] > 5 \/ po[bad] > 3 THEN Raise("IndexError", <<>>)
     ELSE Raise("TypeError", <<>>)

\* Accepted without the test of the axes at the junction.
AcceptedAny == s >= 0

Accepted ==
  /\ s >= 0
  /\ \/ s = depthPhase1
     \/ /\ ax[depthPhase1 - 1] # ax[depthPhase1]
        /\ ax[depthPhase1 - 1] # ax[depthPhase1] + 3

Junction ==
  /\ pc = "junction"
  /\ IF Accepted THEN solutionToString(s) ELSE pc' = "phase1" /\ result' = result
  /\ Quiet
  /\ UNCHANGED <<call, arrays, frame, frame_td, s, clock, exact>>

\* Another call of solution on the same Search instance.
Again ==
  /\ pc = "done"
  /\ entry = "Search.solution"
  /\ calls < MaxCalls
  /\ \E c \in RepeatCalls :
       /\ entry' = c.entry /\ facelets' = c.facelets
       /\ maxDepth' = c.maxDepth /\ timeOut' = c.timeOut
  /\ calls' = calls + 1
  /\ pc' = "solution"
  /\ result' = NoResult
  /\ n' = 0 /\ busy' = FALSE /\ depthPhase1' = 0
  /\ n_td' = 0 /\ busy_td' = FALSE /\ depthPhase2' = 0 /\ maxDepthPhase2' = 0
  /\ s' = 0 /\ clock' = 0
  /\ Quiet
  /\ UNCHANGED <<arrays, exact>>

Next ==
  \/ solve \/ solve_return \/ Validate
  \/ Phase1Descend \/ Phase1Power \/ Phase1Axis \/ Phase1Exhaust \/ Phase1Coords
  \/ totalDepth
  \/ Phase2Descend \/ Phase2Power \/ Phase2Axis \/ Phase2Exhaust \/ Phase2Coords
  \/ AfterTotalDepth \/ BiForward \/ BiBackward \/ BiIdle \/ BiTail
  \/ Junction

Spec == Init /\ [][Next]_vars

\* The interpreter keeps running the call: weak fairness of Next.  A step of
\* Next is possible exactly while pc # "done", so WF_vars(Next) is written with
\* that in the place of ENABLED <<Next>>_vars; the two steps of the loop of
\* bidirectional_totalDepth are named on their own.
FairSpec ==
  /\ Spec
  /\ []<>(pc = "done") \/ []<><<Next>>_vars
  /\ WF_vars(BiIdle) /\ WF_vars(BiTail)

NextReuse == Next \/ Again

SpecReuse == Init /\ [][NextReuse]_vars

ModelExact == exact

(***************************************************************************)
(* The parity coordinate along a sequence of moves, as solution and        *)
(* totalDepth carry it: parity[n + 1] = parityMove[parity[n]][mv].         *)
(***************************************************************************)
MaxTurns == 3

\* A new Search instance outside any call.
NewSearch ==
  /\ entry = "" /\ facelets = <<>> /\ maxDepth = 0 /\ timeOut = 0 /\ calls = 0
  /\ ax = zeros /\ po = zeros /\ flip = zeros /\ twist = zeros /\ slice = zeros
  /\ URFtoDLF = zeros /\ FRtoBR = zeros /\ URtoUL = zeros
  /\ UBtoDF = zeros /\ URtoDF = zeros /\ minDistPhase1 = zeros /\ minDistPhase2 = zeros
  /\ n = 0 /\ busy = FALSE /\ depthPhase1 = 0
  /\ n_td = 0 /\ busy_td = FALSE /\ depthPhase2 = 0 /\ maxDepthPhase2 = 0
  /\ s = 0 /\ clock = 0 /\ result = NoResult
  /\ ev = "" /\ timeRead = FALSE /\ exact = TRUE

InitParity ==
  /\ NewSearch /\ build = NoBuild
  /\ pc = "parity"
  /\ \E p \in 0..(N_PARITY - 1) : parity = [zeros EXCEPT ![0] = p]

\* mv = 3 * ax[n] + po[n] - 1; parity[n + 1] = parityMove[parity[n]][mv]
ParityMove ==
  /\ pc = "parity"
  /\ n < MaxTurns
  /\ \E a \in 0..5, p \in 1..3 :
       /\ ax' = [ax EXCEPT ![n] = a]
       /\ po' = [po EXCEPT ![n] = p]
       /\ parity' = [parity EXCEPT ![n + 1] = parityMove[parity[n]][3 * a + p - 1]]
  /\ n' = n + 1
  /\ UNCHANGED <<pc, call, flip, twist, slice, URFtoDLF, FRtoBR, URtoUL, UBtoDF, URtoDF,
                 minDistPhase1, minDistPhase2, busy, depthPhase1, frame_td, s, clock,
                 result, ev, timeRead, exact, build>>

SpecParity == InitParity /\ [][ParityMove]_vars

(***************************************************************************)
(* The fill of a pruning table in the class body of CoordCube, run when    *)
(* load_cachetable finds no file.  The table is a list of Python ints, one *)
(* per two entries, each -1 at the start.  The model follows the passes    *)
(* for depth 0 .. PrunRadius - 1 and keeps the bytes that have been        *)
(* written; every other byte of the list is still -1.                      *)
(***************************************************************************)
\* The tables whose list starts as [-1] * (size // 2).
BuiltTables == {"Slice_Flip_Prun", "Slice_URFtoDLF_Parity_Prun", "Slice_URtoDF_Parity_Prun"}

TableSize(t) ==
  CASE t = "Slice_Flip_Prun" -> N_SLICE1 * N_FLIP
    [] t = "Slice_URFtoDLF_Parity_Prun" -> N_SLICE2 * N_URFtoDLF * N_PARITY
    [] t = "Slice_URtoDF_Parity_Prun" -> N_SLICE2 * N_URtoDF * N_PARITY
    [] t = "Slice_Twist_Prun" -> N_SLICE1 * N_TWIST

\* The four tables the class body fills.
AllTables == BuiltTables \cup {"Slice_Twist_Prun"}

\* [0] * ((N + 3) // 4) for Slice_Twist_Prun, [-1] * (N // 2) for the others.
Allocated(t) ==
  IF t = "Slice_Twist_Prun"
  THEN [len |-> (TableSize(t) + 3) \div 4, fill |-> 0]
  ELSE [len |-> TableSize(t) \div 2, fill |-> -1]

\* table[byte_index] of a list [-1] * k of which tb holds the bytes written.
ByteAt(tb, byte_index) == IF byte_index \in DOMAIN tb THEN tb[byte_index] ELSE -1

\* getPruning(table, index) on the list being filled: & 0x0F of the byte for
\* an even index, >> 4 for an odd one; Python's >> keeps the sign.
getPruningBuilt(tb, index) == Nibble(ByteAt(tb, index \div 2), index)

\* byte & 0xF0
HighNibble(byte_val) == (byte_val % 256) - (byte_val % 16)

\* setPruning(table, index, value)
setPruning(tb, index, value) ==
  [b \in DOMAIN tb \cup {index \div 2} |->
     IF b # index \div 2 THEN tb[b]
     ELSE IF index % 2 = 0 THEN HighNibble(ByteAt(tb, b)) + value
     ELSE (ByteAt(tb, b) % 16) + 16 * value]

\* The indices of the bytes written so far.
Written(tb) == UNION {{2 * b, 2 * b + 1} : b \in DOMAIN tb}

\* The indices after index from that the pass for depth d expands.
ToExpand(tb, d, from) == {k \in Written(tb) : k >= from /\ getPruningBuilt(tb, k) = d}

Least(S) == CHOOSE k \in S : \A m \in S : k <= m

\* table[byte_index] of the list of table t of which tb holds the bytes written.
ListByte(t, tb, byte_index) ==
  IF byte_index \in DOMAIN tb THEN tb[byte_index] ELSE Allocated(t).fill

\* getPruning(table, index) on the list of table t.
getPruningList(t, tb, index) == Nibble(ListByte(t, tb, index \div 2), index)

\* The first index from `from` on that was never written and reads as d.
Unwritten(t, tb, d, from) ==
  {k \in from..Min2(TableSize(t) - 1, from + Cardinality(Written(tb))) :
     /\ k \notin Written(tb) /\ Nibble(Allocated(t).fill, k) = d
     /\ \A m \in from..(k - 1) : m \in Written(tb)}

\* depth = 0; setPruning(table, 0, 0); done = 1
InitBuild ==
  /\ NewSearch
  /\ parity = zeros
  /\ pc = "build"
  /\ \E t \in AllTables :
       build = [name |-> t, table |-> setPruning((0 :> Allocated(t).fill), 0, 0),
                depth |-> 0, done |-> 1, i |-> 0, j |-> 0]

\* One turn of "for j in range(18)" for an index i with getPruning(table, i) == depth.
BuildMove ==
  /\ pc = "build"
  /\ build.j < N_MOVE
  /\ \E k \in {IF build.j \in FillMoves(build.name)
                THEN NeighbourAt(build.name, build.i, build.j) ELSE -1} :
       IF k >= 0 /\ k \div 2 >= Allocated(build.name).len
       THEN /\ Raise("IndexError", <<>>)
            /\ build' = build
       ELSE /\ pc' = pc /\ result' = result
            /\ IF k >= 0 /\ getPruningList(build.name, build.table, k) = 15
               THEN build' =
                      [build EXCEPT
                         !.table = setPruning((k \div 2 :> ListByte(build.name, build.table,
                                                                    k \div 2))
                                                @@ build.table, k, build.depth + 1),
                         !.done = build.done + 1, !.j = build.j + 1]
               ELSE build' = [build EXCEPT !.j = build.j + 1]
  /\ UNCHANGED <<call, arrays, frame, frame_td, s, clock, ev, timeRead, exact>>

\* "for i in range(size)" goes on to the next index whose entry is depth; at
\* the end of the range depth += 1 and, while done != size, the next pass begins.
BuildScan ==
  /\ pc = "build"
  /\ build.j = N_MOVE
  /\ LET rest == ToExpand(build.table, build.depth, build.i + 1)
                   \cup Unwritten(build.name, build.table, build.depth, build.i + 1)
         next == ToExpand(build.table, build.depth + 1, 0)
                   \cup Unwritten(build.name, build.table, build.depth + 1, 0)
     IN IF rest # {}
        THEN /\ build' = [build EXCEPT !.i = Least(rest), !.j = 0]
             /\ pc' = pc
        ELSE IF build.done = TableSize(build.name)
        THEN /\ build' = [build EXCEPT !.depth = build.depth + 1]
             /\ pc' = "built"
        ELSE IF build.depth + 1 >= PrunRadius \/ next = {}
        THEN /\ build' = [build EXCEPT !.depth = build.depth + 1]
             /\ pc' = "build_later"
        ELSE /\ build' = [build EXCEPT !.depth = build.depth + 1, !.i = Least(next), !.j = 0]
             /\ pc' = pc
  /\ UNCHANGED <<call, arrays, frame, frame_td, s, clock, result, ev, timeRead, exact>>

NextBuild == BuildMove \/ BuildScan

SpecBuild == InitBuild /\ [][NextBuild]_vars

(***************************************************************************)
(* The build of a move table in the class body of CoordCube: one cubie     *)
(* cube a for all rows, set to coordinate i, turned three times by each    *)
(* face with an entry stored after each turn, and a fourth time.           *)
(***************************************************************************)
MoveTables == {"twistMove", "flipMove", "FRtoBR_Move", "URFtoDLF_Move", "URtoDF_Move",
               "URtoUL_Move", "UBtoDF_Move"}

TableRows(t) ==
  CASE t = "twistMove" -> N_TWIST
    [] t = "flipMove" -> N_FLIP
    [] t = "FRtoBR_Move" -> N_FRtoBR
    [] t = "URFtoDLF_Move" -> N_URFtoDLF
    [] t = "URtoDF_Move" -> N_URtoDF
    [] t = "URtoUL_Move" -> N_URtoUL
    [] t = "UBtoDF_Move" -> N_UBtoDF

\* The rows of a table the model builds in one run.
MaxRows == 2

\* a.setTwist(i), a.setFlip(i), ...
SetCoordinate(t, c, idx) ==
  CASE t = "twistMove" -> setTwist(c, idx)
    [] t = "flipMove" -> setFlip(c, idx)
    [] t = "FRtoBR_Move" -> setFRtoBR(c, idx)
    [] t = "URFtoDLF_Move" -> setURFtoDLF(c, idx)
    [] t = "URtoDF_Move" -> setURtoDF(c, idx)
    [] t = "URtoUL_Move" -> setURtoUL(c, idx)
    [] t = "UBtoDF_Move" -> setUBtoDF(c, idx)

\* a.getTwist(), a.getFlip(), ...
GetCoordinate(t, c) ==
  CASE t = "twistMove" -> getTwist(c)
    [] t = "flipMove" -> getFlip(c)
    [] t = "FRtoBR_Move" -> getFRtoBR(c)
    [] t = "URFtoDLF_Move" -> getURFtoDLF(c)
    [] t = "URtoDF_Move" -> getURtoDF(c)
    [] t = "URtoUL_Move" -> getURtoUL(c)
    [] t = "UBtoDF_Move" -> getUBtoDF(c)

\* a.cornerMultiply(moveCube[j]) or a.edgeMultiply(moveCube[j])
FaceTurn(t, c, face) ==
  IF t \in {"twistMove", "URFtoDLF_Move"} THEN cornerMultiply(c, moveCube[face])
  ELSE edgeMultiply(c, moveCube[face])

\* The turn after the three stored ones: "4. faceturn restores".
FourthTurn(t, c, face) == FaceTurn(t, c, face)

\* rle_compress(data): the runs of equal neighbours as tuples (value, count).
RECURSIVE rle_runs(_, _, _, _)
rle_runs(data, i, count, compressed) ==
  IF i > Len(data) THEN Append(compressed, <<data[Len(data)], count>>)
  ELSE IF data[i] = data[i - 1] THEN rle_runs(data, i + 1, count + 1, compressed)
  ELSE rle_runs(data, i + 1, 1, Append(compressed, <<data[i - 1], count>>))

rle_compress(data) == rle_runs(data, 2, 1, <<>>)

\* rle_decompress(compressed): count copies of each value.
RECURSIVE rle_decompress(_)
rle_decompress(compressed) ==
  IF compressed = <<>> THEN <<>>
  ELSE [x \in 1..compressed[1][2] |-> compressed[1][1]]
         \o rle_decompress(SubSeq(compressed, 2, Len(compressed)))

\* isinstance(x, tuple): a run (value, count), not a row of N_MOVE entries.
IsTuple(x) == DOMAIN x = 1..2

\* dump_cachetable(obj, name): the object pickle writes to name + '.pkl'.
dump_cachetable(obj, name) == rle_compress(obj)

\* load_cachetable(name) when the file holds pickled.
load_cachetable(pickled, name) ==
  IF name = "URtoDF_Move" /\ IsTuple(pickled[1]) THEN rle_decompress(pickled) ELSE pickled

\* The table as the class body leaves it: URtoDF_Move = rle_compress(URtoDF_Move).
BuiltTable(t, rows) == IF t = "URtoDF_Move" THEN rle_compress(rows) ELSE rows

\* A row of a move table: [0] * N_MOVE with the entries stored so far.
RowOf(stored) == [m \in 0..(N_MOVE - 1) |-> IF m \in DOMAIN stored THEN stored[m] ELSE 0]

InitMoveTable ==
  /\ NewSearch
  /\ parity = zeros
  /\ pc = "move_table"
  /\ \E t \in MoveTables : \E first \in {0, TableRows(t) - MaxRows} :
       build = [name |-> t, i |-> first, last |-> first + MaxRows - 1, j |-> 0, k |-> 0,
                a |-> SetCoordinate(t, CubieCube, first), row |-> <<>>, table |-> <<>>]

\* a.xMultiply(moveCube[j]); table[i][3 * j + k] = a.getX()
MoveTableTurn ==
  /\ pc = "move_table"
  /\ build.k < 3
  /\ \E c \in {FaceTurn(build.name, build.a, build.j)} :
       build' = [build EXCEPT !.a = c, !.k = build.k + 1,
                              !.row = (3 * build.j + build.k :> GetCoordinate(build.name, c))
                                        @@ build.row]
  /\ UNCHANGED <<pc, call, arrays, frame, frame_td, s, clock, result, ev, timeRead, exact>>

\* The fourth turn of face j, then the next face or a.setX(i + 1) for the next row.
MoveTableRestore ==
  /\ pc = "move_table"
  /\ build.k = 3
  /\ \E c \in {FourthTurn(build.name, build.a, build.j)} :
       IF build.j < 5
       THEN /\ build' = [build EXCEPT !.a = c, !.j = build.j + 1, !.k = 0]
            /\ pc' = pc
       ELSE IF build.i < build.last
       THEN /\ build' = [build EXCEPT !.a = SetCoordinate(build.name, c, build.i + 1),
                                      !.i = build.i + 1, !.j = 0, !.k = 0, !.row = <<>>,
                                      !.table = Append(build.table, RowOf(build.row))]
            /\ pc' = pc
       ELSE /\ build' = [build EXCEPT !.a = c,
                           !.table = BuiltTable(build.name,
                                                Append(build.table, RowOf(build.row)))]
            /\ pc' = "move_table_built"
  /\ UNCHANGED <<call, arrays, frame, frame_td, s, clock, result, ev, timeRead, exact>>

\* dump_cachetable(table, name) at the end of the build.
MoveTableDump ==
  /\ pc = "move_table_built"
  /\ build' = [build EXCEPT !.row = <<>>] @@ [file |-> dump_cachetable(build.table, build.name)]
  /\ pc' = "move_table_dumped"
  /\ UNCHANGED <<call, arrays, frame, frame_td, s, clock, result, ev, timeRead, exact>>

\* table = load_cachetable(name) in a later process.
MoveTableLoad ==
  /\ pc = "move_table_dumped"
  /\ build' = build @@ [loaded |-> load_cachetable(build.file, build.name)]
  /\ pc' = "move_table_loaded"
  /\ UNCHANGED <<call, arrays, frame, frame_td, s, clock, result, ev, timeRead, exact>>

NextMoveTable == MoveTableTurn \/ MoveTableRestore \/ MoveTableDump \/ MoveTableLoad

SpecMoveTable == InitMoveTable /\ [][NextMoveTable]_vars

(***************************************************************************)
(* Two Search instances, each running one call of solution in a thread of  *)
(* its own.  The variables of the search hold the instance and the locals  *)
(* of the thread that is running; the other thread is parked.  The threads *)
(* share the tables of CoordCube and _pruning_byte_cache.  Before the two   *)
(* calls run together each of them runs alone, in an interpreter of its    *)
(* own with an empty cache, and what it returns is kept.                   *)
(***************************************************************************)
\* The instance and the locals of the thread that is running.
Thread ==
  [pc |-> pc, entry |-> entry, facelets |-> facelets, maxDepth |-> maxDepth,
   timeOut |-> timeOut, calls |-> calls, ax |-> ax, po |-> po, flip |-> flip,
   twist |-> twist, slice |-> slice, parity |-> parity, URFtoDLF |-> URFtoDLF,
   FRtoBR |-> FRtoBR, URtoUL |-> URtoUL, UBtoDF |-> UBtoDF, URtoDF |-> URtoDF,
   minDistPhase1 |-> minDistPhase1, minDistPhase2 |-> minDistPhase2, n |-> n,
   busy |-> busy, depthPhase1 |-> depthPhase1, n_td |-> n_td, busy_td |-> busy_td,
   depthPhase2 |-> depthPhase2, maxDepthPhase2 |-> maxDepthPhase2, s |-> s,
   clock |-> clock, result |-> result]

\* Search() and the call about to be made on it: the lists of __init__.
NewThread(c) ==
  [pc |-> "solution", entry |-> c.entry, facelets |-> c.facelets,
   maxDepth |-> c.maxDepth, timeOut |-> c.timeOut, calls |-> 1, ax |-> zeros,
   po |-> zeros, flip |-> zeros, twist |-> zeros, slice |-> zeros,
   parity |-> zeros, URFtoDLF |-> zeros, FRtoBR |-> zeros, URtoUL |-> zeros,
   UBtoDF |-> zeros, URtoDF |-> zeros, minDistPhase1 |-> zeros,
   minDistPhase2 |-> zeros, n |-> 0, busy |-> FALSE, depthPhase1 |-> 0, n_td |-> 0,
   busy_td |-> FALSE, depthPhase2 |-> 0, maxDepthPhase2 |-> 0, s |-> 0,
   clock |-> 0, result |-> NoResult]

\* The lists of an instance: self.ax, self.po, ... of its own.
OwnArrays(t) ==
  <<t.ax, t.po, t.flip, t.twist, t.slice, t.parity, t.URFtoDLF, t.FRtoBR, t.URtoUL,
    t.UBtoDF, t.URtoDF, t.minDistPhase1, t.minDistPhase2>>

\* Thread t goes on.
Resume(t) ==
  /\ pc' = t.pc /\ entry' = t.entry /\ facelets' = t.facelets
  /\ maxDepth' = t.maxDepth /\ timeOut' = t.timeOut /\ calls' = t.calls
  /\ n' = t.n /\ busy' = t.busy /\ depthPhase1' = t.depthPhase1
  /\ n_td' = t.n_td /\ busy_td' = t.busy_td /\ depthPhase2' = t.depthPhase2
  /\ maxDepthPhase2' = t.maxDepthPhase2 /\ s' = t.s /\ clock' = t.clock
  /\ result' = t.result
  /\ ax' = OwnArrays(t)[1]
  /\ po' = OwnArrays(t)[2]
  /\ flip' = OwnArrays(t)[3]
  /\ twist' = OwnArrays(t)[4]
  /\ slice' = OwnArrays(t)[5]
  /\ parity' = OwnArrays(t)[6]
  /\ URFtoDLF' = OwnArrays(t)[7]
  /\ FRtoBR' = OwnArrays(t)[8]
  /\ URtoUL' = OwnArrays(t)[9]
  /\ UBtoDF' = OwnArrays(t)[10]
  /\ URtoDF' = OwnArrays(t)[11]
  /\ minDistPhase1' = OwnArrays(t)[12]
  /\ minDistPhase2' = OwnArrays(t)[13]

\* The pairs of calls that run together: the solved cube and R2 with
\* maxDepth 2, R2 with the default depth and U with maxDepth 1, and D' U'
\* twice.
SharedCalls ==
  {<<Call("Search.solution", SolvedString, 2, DefaultTimeOut),
     Call("Search.solution", CubeString(Scramble(<<4>>)), 2, DefaultTimeOut)>>,
   <<Call("Search.solution", CubeString(Scramble(<<4>>)), DefaultMaxDepth, DefaultTimeOut),
     Call("Search.solution", CubeString(Scramble(<<0>>)), 1, DefaultTimeOut)>>,
   <<Call("Search.solution", CubeString(Scramble(<<11, 2>>)), DefaultMaxDepth,
          DefaultTimeOut),
     Call("Search.solution", CubeString(Scramble(<<11, 2>>)), DefaultMaxDepth,
          DefaultTimeOut)>>}

\* The first call is about to run alone.
InitShared ==
  /\ \E pair \in SharedCalls :
       /\ \E t \in {NewThread(pair[1])} :
            /\ pc = t.pc /\ entry = t.entry /\ facelets = t.facelets
            /\ maxDepth = t.maxDepth /\ timeOut = t.timeOut /\ calls = t.calls
            /\ ax = t.ax /\ po = t.po /\ flip = t.flip /\ twist = t.twist
            /\ slice = t.slice /\ parity = t.parity /\ URFtoDLF = t.URFtoDLF
            /\ FRtoBR = t.FRtoBR /\ URtoUL = t.URtoUL /\ UBtoDF = t.UBtoDF
            /\ URtoDF = t.URtoDF /\ minDistPhase1 = t.minDistPhase1
            /\ minDistPhase2 = t.minDistPhase2 /\ n = t.n /\ busy = t.busy
            /\ depthPhase1 = t.depthPhase1 /\ n_td = t.n_td /\ busy_td = t.busy_td
            /\ depthPhase2 = t.depthPhase2 /\ maxDepthPhase2 = t.maxDepthPhase2 /\ s = t.s
            /\ clock = t.clock /\ result = t.result
       /\ build = [name |-> "shared", stage |-> "alone", cur |-> 1, calls |-> pair,
                   parked |-> NewThread(pair[2]), alone |-> <<NoResult, NoResult>>,
                   cache |-> <<>>]
  /\ ev = "" /\ timeRead = FALSE /\ exact = TRUE

\* The call in bidirectional_totalDepth with maxDepthPhase2 <= 0 stays in its
\* loop: it returns nothing.
NeverReturns(at) == at \in {"bi_tail"}

\* A call that ran alone has ended, or will not end.  The next call runs
\* alone, or both calls start in one interpreter, the first one running.
AloneEnd ==
  /\ build.name = "shared" /\ build.stage = "alone"
  /\ pc = "done" \/ NeverReturns(pc)
  /\ IF build.cur = 1
     THEN /\ Resume(build.parked)
          /\ build' = [build EXCEPT !.cur = 2, !.cache = <<>>,
                                    !.alone = [@ EXCEPT ![1] = result]]
     ELSE /\ Resume(NewThread(build.calls[1]))
          /\ build' = [build EXCEPT !.stage = "both", !.cur = 1, !.cache = <<>>,
                                    !.parked = NewThread(build.calls[2]),
                                    !.alone = [@ EXCEPT ![2] = result]]
  /\ Silent
  /\ exact' = exact

\* The interpreter lets the other thread run.
Switch ==
  /\ build.name = "shared" /\ build.stage = "both"
  /\ build.parked.pc # "done"
  /\ Resume(build.parked)
  /\ build' = [build EXCEPT !.parked = Thread, !.cur = 3 - build.cur]
  /\ Silent
  /\ exact' = exact

\* A step of Search.solution in the thread that is running.
NextShared ==
  \/ Validate
  \/ Phase1Descend \/ Phase1Power \/ Phase1Axis \/ Phase1Exhaust \/ Phase1Coords
  \/ totalDepth
  \/ Phase2Descend \/ Phase2Power \/ Phase2Axis \/ Phase2Exhaust \/ Phase2Coords
  \/ AfterTotalDepth \/ BiForward \/ BiBackward \/ BiIdle \/ BiTail
  \/ Junction
  \/ AloneEnd \/ Switch

SpecShared == InitShared /\ [][NextShared]_vars

(***************************************************************************)
(* Properties of Search.solution and solve.                                *)
(***************************************************************************)
\* Search.solution has returned to its caller (solve, or the caller of the class).
SolutionReturned ==
  /\ result.kind = "returned"
  /\ pc = "solve_return" \/ (pc = "done" /\ entry = "Search.solution")

\* Search.solution has returned a move string.
MovesReturned == SolutionReturned /\ ~IsErrorText(result.text)

\* The search ran (validation passed) and Search.solution has ended.
SearchEnded ==
  /\ depthPhase1 >= 1
  /\ pc = "solve_return" \/ (pc = "done" /\ ~(entry = "solve" /\ result.exc = "ValueError"))

InputCube == toCubieCube(FaceCube(facelets))

PowerOf(text) == CASE text = " " -> 1 [] text = "2 " -> 2 [] text = "' " -> 3

\* The cube c after the printed moves of text, first to last.
RECURSIVE ApplyText(_, _)
ApplyText(c, text) ==
  IF text = <<>> THEN c
  ELSE ApplyText(Turn(c, 3 * colors[text[1]] + PowerOf(text[2]) - 1),
                 SubSeq(text, 3, Len(text)))

\* C1: every move string Search.solution returns, applied to the input cube,
\* gives the solved cube.
C1_Sound == MovesReturned => ApplyText(InputCube, result.text) = CubieCube

\* C2: every solution Search.solution returns has at most maxDepth moves.
C2_LengthBound == MovesReturned => Len(result.text) \div 2 <= maxDepth

\* A solution of phase 1 and phase 2 together that uses all of maxDepth.
C2_Witness ==
  /\ MovesReturned
  /\ depthPhase2 = 1 /\ s = depthPhase1 + depthPhase2
  /\ Len(result.text) \div 2 = s /\ s = maxDepth

\* C3: every call of Search.solution eventually returns (or raises).
C3_Terminates == <>(pc = "done")

\* C4: once validation has passed, Search.solution ends only with a move
\* string, 'Error 7' or 'Error 8'.
C4_OnlySearchOutcomes ==
  SearchEnded =>
    /\ result.kind = "returned"
    /\ IsErrorText(result.text) => result.text \in {<<ErrorString[7]>>, <<ErrorString[8]>>}

\* C5: for the solved cube the solver returns the empty solution.
C5_SolvedGivesEmpty ==
  (pc = "done" /\ facelets = SolvedString) =>
     result.kind = "returned" /\ result.text = <<>>

\* The text of the one move that undoes turn m.
InverseText(m) == <<ax_to_s[m \div 3], po_to_s[3 - (m % 3)]>>

\* C6: at the default maxDepth a cube one face turn m from solved gets the
\* one-move solution that undoes m.
C6_InverseTurn ==
  \A m \in 0..(N_MOVE - 1) :
     (pc = "done" /\ entry = "Search.solution" /\ maxDepth = DefaultMaxDepth
        /\ facelets = CubeString(Scramble(<<m>>)))
       => result.kind = "returned" /\ result.text = InverseText(m)

\* The cube after R2, where the turns U, U2, U' of phase 1 stay in H and
\* phase 2 finds three-move solutions first, is answered with R2.
C6_Witness ==
  /\ pc = "done" /\ entry = "Search.solution" /\ maxDepth = DefaultMaxDepth
  /\ facelets = CubeString(Scramble(<<4>>))
  /\ result.text = <<"R", "2 ">>

\* C7: solve reports a 54-character input with a foreign character or a
\* colour that does not occur 9 times as 'Error 1'.
C7_Error1Reported ==
  (pc = "done" /\ entry = "solve" /\ Len(facelets) = 54 /\ CensusFails(facelets))
    => result.text = <<ErrorString[1]>>

\* C8: every facelet string whose length is not 54 is rejected with Error 1.
C8_WrongLengthRejected ==
  (Len(facelets) # 54 /\ SolutionReturned) => result.text = <<ErrorString[1]>>

\* C9: for maxDepth >= 1, depthPhase1 starts at 1, grows by 1 only, never
\* exceeds maxDepth, and 'Error 7' is returned only when depthPhase1 = maxDepth
\* has used up all six axes at depth 0.
C9_Deepening ==
  [][ maxDepth >= 1 =>
        /\ (pc = "solution" /\ pc' = "phase1") => depthPhase1' = 1
        /\ pc # "solution" /\ pc' # "solution"
             => depthPhase1' \in {depthPhase1, depthPhase1 + 1}
        /\ pc' # "solution" => depthPhase1' <= maxDepth
        /\ (result' # result /\ result'.text = <<ErrorString[7]>>
              /\ result'.kind = "returned")
             => /\ depthPhase1 = maxDepth /\ n = 0
                /\ ev' = "phase1_exhaust" /\ ax'[0] > 5 ]_vars

\* 'Error 7' after the second iteration of phase 1.
C9_Witness ==
  /\ SolutionReturned /\ result.text = <<ErrorString[7]>>
  /\ depthPhase1 = 2 /\ maxDepth = 2 /\ ax[0] > 5

\* C10 as stated: every axis-exhaust event, of phase 1 and of phase 2, reads
\* the clock and compares it with timeOut.
C10_EveryExhaustTimed == ev \in {"phase1_exhaust", "phase2_exhaust"} => timeRead

\* C10: every axis-exhaust event of phase 1 compares the elapsed time with
\* timeOut and returns 'Error 8' if it is exceeded; an axis-exhaust event of
\* phase 2 reads no clock.
C10_Phase1ExhaustTimed ==
  /\ ev = "phase1_exhaust" =>
       /\ timeRead
       /\ clock > MsPerSecond * timeOut =>
            SolutionReturned /\ result.text = <<ErrorString[8]>>
  /\ ev = "phase2_exhaust" => ~timeRead

\* The time-out found at an axis-exhaust event of phase 1.
C10_Witness ==
  /\ ev = "phase1_exhaust" /\ timeRead
  /\ clock > MsPerSecond * timeOut
  /\ result.text = <<ErrorString[8]>>

\* C11: timeOut counts milliseconds: at the first time check of phase 1 at which
\* more than timeOut milliseconds have gone by, the search returns 'Error 8'.
C11_MillisecondBudget ==
  (ev = "phase1_exhaust" /\ timeRead /\ clock > timeOut)
    => SolutionReturned /\ result.text = <<ErrorString[8]>>

\* solve has returned a string to its caller.
SolveReturned == pc = "done" /\ entry = "solve" /\ result.kind = "returned"

\* The characters of one piece of a text.
PieceChars(piece) ==
  CASE piece = "2 " -> <<"2", " ">>
    [] piece = "' " -> <<"'", " ">>
    [] OTHER -> <<piece>>

\* A text, character by character.
RECURSIVE Characters(_)
Characters(text) ==
  IF text = <<>> THEN <<>>
  ELSE PieceChars(text[1]) \o Characters(SubSeq(text, 2, Len(text)))

\* Token i of a solution: the face letter of ax[i], then nothing, 2 or an apostrophe.
Token(i) ==
  <<<<"U", "R", "F", "D", "L", "B">>[ax[i] + 1]>>
    \o (CASE po[i] = 1 -> <<>> [] po[i] = 2 -> <<"2">> [] po[i] = 3 -> <<"'">>)

\* The tokens i .. moves - 1 with one space between neighbours.
RECURSIVE SpacedTokens(_, _)
SpacedTokens(i, moves) ==
  IF i >= moves THEN <<>>
  ELSE Token(i) \o (IF i + 1 < moves THEN <<" ">> ELSE <<>>) \o SpacedTokens(i + 1, moves)

\* C12: a solution of s >= 1 moves comes back from solve as s tokens with single
\* spaces between them and no blank at either end; every printed move has
\* ax[i] in 0..5 and po[i] in 1..3.
C12_TokenFormat ==
  (SolveReturned /\ s >= 1) =>
     /\ \A i \in 0..(s - 1) : ax[i] \in 0..5 /\ po[i] \in 1..3
     /\ Characters(result.text) = SpacedTokens(0, s)

\* Two moves, the second a half turn: U' R2.
C12_Witness ==
  /\ SolveReturned /\ s = 2
  /\ Characters(result.text) = <<"U", "'", " ", "R", "2">>

\* One quarter turn, printed as the face letter alone.
C12_WitnessBare == SolveReturned /\ s = 1 /\ Characters(result.text) = <<"R">>

\* The moves that keep a cube in H: U and D by any power, R, F, L, B by 180 degrees.
HLegalMoves == {3 * a + p - 1 : a \in {0, 3}, p \in 1..3} \cup {3 * a + 1 : a \in {1, 2, 4, 5}}

\* C13: whenever totalDepth applies a move, every move on the stack from
\* position depthPhase1 up to n is one of the 10 H-legal moves
\* {0,1,2,4,7,9,10,11,13,16}, the set the phase-2 pruning tables are built with.
C13_Phase2MovesLegal ==
  /\ HLegalMoves = {0, 1, 2, 4, 7, 9, 10, 11, 13, 16} /\ HLegalMoves = Phase2Moves
  /\ pc = "coords2" =>
       /\ n_td >= depthPhase1
       /\ \A i \in depthPhase1..n_td : 3 * ax[i] + po[i] - 1 \in HLegalMoves

\* R2 placed on the first descent below a U turn that had its power raised.
C13_Witness ==
  /\ pc = "coords2" /\ n_td = depthPhase1 + 1
  /\ ax[depthPhase1] = 0 /\ po[depthPhase1] = 2
  /\ ax[n_td] = 1 /\ po[n_td] = 2

\* The quarter turns of the moves at the stack positions i .. last - 1.
RECURSIVE QuarterTurns(_, _)
QuarterTurns(i, last) == IF i >= last THEN 0 ELSE po[i] + QuarterTurns(i + 1, last)

\* C14: parityMove[p][m] = 1 - p for a turn m by 90 or 270 degrees and = p for a
\* turn by 180 degrees; the parity after a sequence of moves is the first
\* parity plus the number of quarter turns, modulo 2.
C14_ParityLaw ==
  /\ \A p \in 0..1, m \in 0..(N_MOVE - 1) :
        parityMove[p][m] = IF m % 3 = 1 THEN p ELSE 1 - p
  /\ pc = "parity" => parity[n] = (parity[0] + QuarterTurns(0, n)) % 2

\* Three moves with three, two and one quarter turn: the parity is back.
C14_Witness ==
  /\ pc = "parity" /\ n = 3 /\ po[0] = 3 /\ po[1] = 2 /\ po[2] = 1
  /\ parity[0] = 1 /\ parity[1] = 0 /\ parity[2] = 0 /\ parity[3] = 1

\* The indices the fill of the table has to have reached by the pass for depth d.
Within(t, d) == UNION {PrunLayers[t][k + 1] : k \in 0..Min2(d, PrunRadius)}

\* C15: the fill of a pruning table leaves exact breadth-first distances: an
\* entry that has been set is the distance of its index from index 0 (an
\* entry is set once), and when the pass for depth d runs every index at
\* distance <= d has its entry, read through getPruning as the code reads it.
C15_FillExact ==
  pc \in {"build", "build_later", "built"} =>
    /\ \A k \in Written(build.table) :
          (getPruningBuilt(build.table, k) \in 0..14 /\ PrunEntry(build.name, k) <= PrunRadius)
            => getPruningBuilt(build.table, k) = PrunEntry(build.name, k)
    /\ \A k \in Within(build.name, build.depth) :
          getPruningBuilt(build.table, k) = PrunEntry(build.name, k)

\* The coordinate of the cubie cube with coordinate idx after turns quarter
\* turns of one face.
RECURSIVE Turned(_, _, _, _)
Turned(t, c, face, turns) ==
  IF turns = 0 THEN c ELSE Turned(t, FaceTurn(t, c, face), face, turns - 1)

AfterTurns(t, idx, m) ==
  GetCoordinate(t, Turned(t, SetCoordinate(t, CubieCube, idx), m \div 3, (m % 3) + 1))

C18_CacheRoundTrip == pc = "move_table_loaded" => build.loaded = build.table

\* max(Slice_Flip_Prun[495 * flip + slice], Slice_Twist_Prun[495 * twist + slice])
PlainMaximum(fl, tw, sl) ==
  Max2(PrunEntry("Slice_Flip_Prun", N_SLICE1 * fl + sl),
       PrunEntry("Slice_Twist_Prun", N_SLICE1 * tw + sl))

\* C19: the value a phase-1 step stores in minDistPhase1[n + 1] is the larger of
\* the two pruning entries of the new (flip, twist, slice) and nothing else
\* (but for the 10 that marks a node in H, where the larger entry is 0).
C19_PlainMaximum ==
  [][ (pc = "coords" /\ pc' # "done"
         /\ PlainMaximum(flip'[n + 1], twist'[n + 1], slice'[n + 1]) # 0)
        => minDistPhase1'[n + 1]
             = PlainMaximum(flip'[n + 1], twist'[n + 1], slice'[n + 1]) ]_vars

\* A move on the face opposite to the face of the move before it, the move
\* before being on the lower-indexed axis of the pair (D after U, L after R,
\* B after F).
OppositeAfterLower(before, a) == before \in 0..2 /\ a = before + 3

\* C20: the move generation of phase 1 and of phase 2 never places a move on
\* axis a+3 directly after a move on axis a, for a in {U, R, F}: when a move
\* has been chosen at position n >= 1 of the path, its axis is not the
\* opposite of the lower-indexed axis at position n - 1. Position n - 1 is a
\* move of the same phase: the first move of phase 2 is left out.
C20_OppositeOrder ==
  /\ (pc = "coords" /\ n >= 1) => ~OppositeAfterLower(ax[n - 1], ax[n])
  /\ (pc = "coords2" /\ n_td > depthPhase1)
       => ~OppositeAfterLower(ax[n_td - 1], ax[n_td])

\* What the call of thread k has returned, NoResult while it has not.
ReturnedBy(k) ==
  IF build.cur = k
  THEN (IF pc = "done" THEN result ELSE NoResult)
  ELSE (IF build.parked.pc = "done" THEN build.parked.result ELSE NoResult)

\* Where thread k is.
PlaceOf(k) == IF build.cur = k THEN pc ELSE build.parked.pc

\* C17: two calls of Search.solution on two Search instances that run together
\* and share the tables and _pruning_byte_cache: under every interleaving of
\* their steps a call that has ended has the result it had when it ran alone,
\* a call is in the loop that never ends only if it was there alone, and
\* every byte a step has put into the cache is the byte of its table.
C17_SharedTables ==
  build.stage = "both" =>
    /\ \A k \in 1..2 :
          /\ PlaceOf(k) = "done" => ReturnedBy(k) = build.alone[k]
          /\ NeverReturns(PlaceOf(k)) => build.alone[k] = NoResult
    /\ \A key \in DOMAIN _pruning_byte_cache :
          _pruning_byte_cache[key] = PrunByte(key[1], key[2])

\* Both calls have returned a solution after running together, the second
\* thread first, and the cache holds bytes.
C17_Witness ==
  /\ build.stage = "both" /\ build.cur = 1
  /\ pc = "done" /\ build.parked.pc = "done"
  /\ result.kind = "returned" /\ build.parked.result.kind = "returned"
  /\ ~IsErrorText(result.text) /\ result.text # <<>>
  /\ DOMAIN _pruning_byte_cache # {}

\* The moves 0 .. length - 1 of the path: no move on the axis of the move
\* before it, and none with ax[i - 1] = ax[i] + 3.
NoRepeatedAxis(length) ==
  \A i \in 1..(length - 1) : ax[i - 1] # ax[i] /\ ax[i - 1] # ax[i] + 3

\* The node at stack depth d is the solved cube of phase 2, as the search
\* stored it.
SolvedAt(d) ==
  /\ minDistPhase2[d] = 0
  /\ URFtoDLF[d] = 0 /\ FRtoBR[d] = 0 /\ parity[d] = 0 /\ URtoDF[d] = 0

InH(d) == flip[d] = 0 /\ twist[d] = 0 /\ slice[d] = 0

\* C22: totalDepth is entered only from the last move of phase 1
\* (n = depthPhase1 - 1) and only with flip, twist and slice all 0 after the
\* depthPhase1-th move, that is, a stored heuristic 0 stands for a cube in H.
\* so that the coordinates totalDepth replays to depthPhase1 are phase-2
\* coordinates: FRtoBR below 24, URtoUL and UBtoDF below 336.
C22_OnlyInH ==
  /\ pc = "totalDepth" => (n = depthPhase1 - 1 /\ InH(depthPhase1))
  /\ pc \in {"after_totalDepth", "phase2"} =>
       /\ InH(depthPhase1)
       /\ FRtoBR[depthPhase1] < 24
       /\ URtoUL[depthPhase1] < 336 /\ UBtoDF[depthPhase1] < 336

\* totalDepth has been entered after a path of three moves that is not the
\* first to be tried, and phase 2 has searched from its end.
C22_Witness ==
  /\ pc = "phase2" /\ InH(depthPhase1)
  /\ ~InH(depthPhase1 - 1)

(***************************************************************************)
(* setPruning and getPruning on lists that are written while the byte      *)
(* cache is in use.  build holds the list, _pruning_byte_cache, the        *)
(* number of bytes of other tables the cache holds, the value last written *)
(* at each index, and the last getPruning call with the value it returned. *)
(***************************************************************************)
\* The bytes of the list.
MaxBytes == 2

\* A list as the class body makes it: [-1] * k.
CacheTables == [Slice_Flip_Prun |-> [b \in 0..(MaxBytes - 1) |-> -1]]

\* The values written: the least and the greatest of 0..15.
CacheValues == {0, 15}

\* The indices of a list: two to a byte.
IndicesOf(tb) == UNION {{2 * b, 2 * b + 1} : b \in DOMAIN tb}

\* _pruning_byte_cache.pop(key, None) left out.
KeptCached(cache, key) == cache

\* _pruning_byte_cache.pop(key, None)
Popped(cache, key) == [k \in DOMAIN cache \ {key} |-> cache[k]]

\* byte_val in getPruning: the cached byte, or the byte of the list.
ByteRead(cache, key, tb) == IF key \in DOMAIN cache THEN cache[key] ELSE tb[key[2]]

\* The cache after getPruning: a byte that was not there is stored while
\* len(_pruning_byte_cache) < 200_000.
Stored(cache, others, key, byte_val) ==
  IF key \in DOMAIN cache \/ Cardinality(DOMAIN cache) + others >= CacheLimit
  THEN cache
  ELSE (key :> byte_val) @@ cache

NoRead == [table |-> "", index |-> 0, value |-> 0]

InitCache ==
  /\ NewSearch
  /\ parity = zeros
  /\ pc = "cache"
  /\ \E others \in {0, CacheLimit} :
       build = [name |-> "cache", tables |-> CacheTables, cache |-> <<>>,
                others |-> others, last |-> <<>>, read |-> NoRead]

\* setPruning(table, index, value)
CacheSet ==
  /\ pc = "cache"
  /\ \E t \in DOMAIN build.tables :
       \E index \in IndicesOf(build.tables[t]), value \in CacheValues :
         build' = [build EXCEPT
                     !.tables[t] = setPruning(build.tables[t], index, value),
                     !.cache = Popped(build.cache, CacheKey(t, index \div 2)),
                     !.last = (<<t, index>> :> value) @@ build.last,
                     !.read = NoRead]
  /\ UNCHANGED <<pc, call, arrays, frame, frame_td, s, clock, result, ev, timeRead, exact>>

\* getPruning(table, index)
CacheGet ==
  /\ pc = "cache"
  /\ \E t \in DOMAIN build.tables :
       \E index \in IndicesOf(build.tables[t]) :
         LET key == CacheKey(t, index \div 2)
             byte_val == ByteRead(build.cache, key, build.tables[t])
         IN build' = [build EXCEPT
                        !.cache = Stored(build.cache, build.others, key, byte_val),
                        !.read = [table |-> t, index |-> index,
                                  value |-> Nibble(byte_val, index)]]
  /\ UNCHANGED <<pc, call, arrays, frame, frame_td, s, clock, result, ev, timeRead, exact>>

NextCache == CacheSet \/ CacheGet

SpecCache == InitCache /\ [][NextCache]_vars

\* C23: in any sequence of setPruning and getPruning calls with values in
\* 0..15, getPruning(table, index) returns the value most recently written
\* at that index, whatever was read or written at the other half of the byte
\* in between; the byte cache never gives a stale value.
C23_CacheCoherent ==
  (pc = "cache" /\ <<build.read.table, build.read.index>> \in DOMAIN build.last)
    => build.read.value = build.last[<<build.read.table, build.read.index>>]

\* Index 1 of the list of bytes -1 was written 0, the other half of its byte
\* still as allocated, and read back as 0 with the byte in the cache.
C23_Witness ==
  /\ pc = "cache"
  /\ build.read.table = "Slice_Flip_Prun" /\ build.read.index = 1
  /\ build.read.value = 0
  /\ CacheKey("Slice_Flip_Prun", 0) \in DOMAIN build.cache
  /\ build.tables["Slice_Flip_Prun"][0] = 15

(***************************************************************************)
(* The lists of the four pruning tables as the class body of CoordCube     *)
(* allocates them, read by getPruning before the first setPruning.  A list *)
(* [v] * k stands as its length k and its byte v.                          *)
(***************************************************************************)
\* The indices read: the first four, two in the middle and the last two of
\* range(N).
ReadIndices(t) ==
  {0, 1, 2, 3, TableSize(t) \div 2, TableSize(t) \div 2 + 1, TableSize(t) - 2,
   TableSize(t) - 1}

InitAlloc ==
  /\ NewSearch
  /\ parity = zeros
  /\ pc = "alloc"
  /\ \E t \in AllTables, others \in {0, CacheLimit} :
       build = [name |-> t, list |-> Allocated(t), cache |-> <<>>, others |-> others,
                read |-> NoRead]

\* getPruning(table, index) on the list as allocated; table[byte_index]
\* raises IndexError beyond the end of the list.
AllocGet ==
  /\ pc = "alloc"
  /\ \E index \in ReadIndices(build.name) :
       LET key == CacheKey(build.name, index \div 2)
       IN IF key \notin DOMAIN build.cache /\ index \div 2 >= build.list.len
          THEN /\ Raise("IndexError", <<>>)
               /\ build' = [build EXCEPT
                              !.read = [table |-> build.name, index |-> index,
                                        value |-> -1]]
          ELSE /\ build' = [build EXCEPT
                              !.cache = Stored(build.cache, build.others, key,
                                               build.list.fill),
                              !.read = [table |-> build.name, index |-> index,
                                        value |-> Nibble(build.list.fill, index)]]
               /\ pc' = pc /\ result' = result
  /\ UNCHANGED <<call, arrays, frame, frame_td, s, clock, ev, timeRead, exact>>

SpecAlloc == InitAlloc /\ [][AllocGet]_vars

\* C24: each of the four pruning tables is allocated with room for all its
\* N entries, two to a byte, and before the first setPruning getPruning
\* reads 15 at every index, Slice_Twist_Prun with N = 495 * 2187 included.
C24_AllocatedEmpty ==
  pc \in {"alloc", "done"} =>
    /\ 2 * build.list.len >= TableSize(build.name)
    /\ build.read.table # "" => (result.kind # "raised" /\ build.read.value = 15)

\* C25: each build loop of a pruning table, run when no cached table is
\* loaded, ends with done = N, every index filled once, and reads no index
\* outside the allocated list on the way: the fill raises no IndexError, done
\* never passes N, and a fill that has ended has done = N.
C25_BuildEnds ==
  build.name \in AllTables =>
    /\ ~(result.kind = "raised" /\ result.exc = "IndexError")
    /\ build.done <= TableSize(build.name)
    /\ pc \in {"built", "done"} => build.done = TableSize(build.name)

(***************************************************************************)
(* CoordCube.move: a move on the coordinate level.  build holds the        *)
(* CoordCube instance, the number of moves made and, of the last move,     *)
(* URtoDF before it and the place of the merge table it read.              *)
(***************************************************************************)
NoMerge == <<>>

InitCoord ==
  /\ NewSearch
  /\ parity = zeros
  /\ pc = "coord"
  /\ build = [name |-> "coord", cc |-> CoordCube(CubieCube), moves |-> 0,
              before |-> CoordCube(CubieCube).URtoDF, merge |-> NoMerge]

\* The coordinates after move m, URtoDF still to be merged.
MovedCoords(cc, m) ==
  [twist |-> twistMove(cc.twist, m), flip |-> flipMove(cc.flip, m),
   parity |-> parityMove[cc.parity][m], FRtoBR |-> FRtoBR_Move(cc.FRtoBR, m),
   URFtoDLF |-> URFtoDLF_Move(cc.URFtoDLF, m), URtoUL |-> URtoUL_Move(cc.URtoUL, m),
   UBtoDF |-> UBtoDF_Move(cc.UBtoDF, m), URtoDF |-> cc.URtoDF]

\* if (self.URtoUL | self.UBtoDF) < 336
MergeTest(uRtoUL, uBtoDF) == BitOr(uRtoUL, uBtoDF) < 336

\* CoordCube.move(m)
CoordMove ==
  /\ pc = "coord"
  /\ build.moves < MaxTurns
  /\ \E m \in 0..(N_MOVE - 1) :
       LET cc == MovedCoords(build.cc, m)
       IN IF MergeTest(cc.URtoUL, cc.UBtoDF)
          THEN build' = [build EXCEPT
                           !.cc = [cc EXCEPT !.URtoDF =
                                     MergeURtoULandUBtoDF(cc.URtoUL, cc.UBtoDF)],
                           !.moves = build.moves + 1,
                           !.before = build.cc.URtoDF,
                           !.merge = <<cc.URtoUL, cc.UBtoDF>>]
          ELSE build' = [build EXCEPT
                           !.cc = cc, !.moves = build.moves + 1,
                           !.before = build.cc.URtoDF, !.merge = NoMerge]
  /\ UNCHANGED <<pc, call, arrays, frame, frame_td, s, clock, result, ev, timeRead, exact>>

SpecCoord == InitCoord /\ [][CoordMove]_vars

\* C26: after CoordCube.move(m), if the new URtoUL and the new UBtoDF are
\* both below 336 then URtoDF is MergeURtoULandUBtoDF[URtoUL][UBtoDF]; if one
\* of them is 336 or more URtoDF is as it was, and the merge table is read
\* inside its 336 rows and 336 columns only.
C26_MergedAfterMove ==
  (pc = "coord" /\ build.moves > 0) =>
    /\ (build.cc.URtoUL < 336 /\ build.cc.UBtoDF < 336)
         => build.cc.URtoDF = MergeURtoULandUBtoDF(build.cc.URtoUL, build.cc.UBtoDF)
    /\ (build.cc.URtoUL >= 336 \/ build.cc.UBtoDF >= 336)
         => build.cc.URtoDF = build.before
    /\ build.merge # NoMerge => (build.merge[1] < 336 /\ build.merge[2] < 336)

\* The places of Search.solution in its phase-1 loop and of totalDepth in its
\* phase-2 loop.
InPhase1 == pc \in {"phase1", "coords", "totalDepth", "after_totalDepth", "junction"}
InPhase2 == pc \in {"phase2", "coords2"}

\* C27: for 1 <= maxDepth <= 30 every index of the depth-indexed arrays the
\* phase-1 loop of Search.solution and the phase-2 loop of totalDepth use is
\* at most maxDepth, inside the 31 slots: phase 1 uses n and n + 1 with
\* 0 <= n <= depthPhase1 - 1 and depthPhase1 <= maxDepth, phase 2 uses n and
\* n + 1 with n + 1 <= depthPhase1 + depthPhase2 <= maxDepth.
C27_IndexBound ==
  (maxDepth >= 1 /\ maxDepth <= 30) =>
    /\ InPhase1 => (0 <= n /\ n <= depthPhase1 - 1 /\ depthPhase1 <= maxDepth)
    /\ InPhase2 =>
         /\ depthPhase1 <= n_td /\ n_td + 1 <= depthPhase1 + depthPhase2
         /\ depthPhase1 + depthPhase2 <= maxDepth

\* Phase 2 applies a move whose new coordinates go to slot maxDepth.
C27_Witness ==
  /\ pc = "coords2" /\ maxDepth = MaxSmallDepth /\ n_td + 1 = maxDepth
  /\ depthPhase1 = 1

(***************************************************************************)
(* One call on a new Search(), then the same call as the second call of    *)
(* another Search() that has solved another cube:                          *)
(*     a = Search().solution(f, d, t, False)                               *)
(*     s = Search(); s.solution(g, 24, t, False); b = s.solution(f, d, t,   *)
(*     False)                                                              *)
(* build keeps the first call and what it returned or raised.              *)
(***************************************************************************)
\* The calls made twice, and the calls the second instance makes before.
HistoryCalls ==
  RepeatCalls \cup {Call("Search.solution", f, MaxSmallDepth, DefaultTimeOut) :
                      f \in PhaseTwoStrings}
UsedCalls ==
  {Call("Search.solution", CubeString(Scramble(<<m>>)), DefaultMaxDepth, DefaultTimeOut) :
     m \in {0, 4}}

ThisCall == [entry |-> entry, facelets |-> facelets, maxDepth |-> maxDepth,
             timeOut |-> timeOut]

\* The call c starts.
Start(c) ==
  /\ entry' = c.entry /\ facelets' = c.facelets
  /\ maxDepth' = c.maxDepth /\ timeOut' = c.timeOut
  /\ calls' = calls + 1
  /\ pc' = "solution"
  /\ result' = NoResult
  /\ n' = 0 /\ busy' = FALSE /\ depthPhase1' = 0
  /\ n_td' = 0 /\ busy_td' = FALSE /\ depthPhase2' = 0 /\ maxDepthPhase2' = 0
  /\ s' = 0 /\ clock' = 0
  /\ Silent

\* s = Search(); s.solution(g, ...): the first call is kept in build.
OtherInstance ==
  /\ pc = "done" /\ calls = 1
  /\ ThisCall \in HistoryCalls
  /\ \E c \in UsedCalls : Start(c)
  /\ ax' = zeros /\ po' = zeros /\ flip' = zeros /\ twist' = zeros /\ slice' = zeros
  /\ parity' = zeros /\ URFtoDLF' = zeros /\ FRtoBR' = zeros /\ URtoUL' = zeros
  /\ UBtoDF' = zeros /\ URtoDF' = zeros /\ minDistPhase1' = zeros
  /\ minDistPhase2' = zeros
  /\ build' = [first |-> ThisCall, fresh |-> result] @@ build
  /\ exact' = exact

\* b = s.solution(f, ...): the first call again, on the instance that was used.
AgainSame ==
  /\ pc = "done" /\ calls = 2
  /\ Start(build.first)
  /\ UNCHANGED <<arrays, exact, build>>

NextHistory == Next \/ OtherInstance \/ AgainSame

SpecHistory == Init /\ [][NextHistory]_vars

\* Error 8: the time-out.
TimedOutResult(r) == r.kind = "returned" /\ r.text = <<ErrorString[8]>>

\* C28: without a time-out what Search.solution returns depends on facelets,
\* maxDepth and useSeparator only: the call on an instance that was used for
\* another cube ends as the same call on a new instance does; no entry of
\* the arrays left by the earlier call is read before it is rewritten.
C28_HistoryFree ==
  (pc = "done" /\ calls = 3 /\ ~TimedOutResult(result) /\ ~TimedOutResult(build.fresh))
    => result = build.fresh

(***************************************************************************)
(* bitcube.py: permutations as Lehmer codes.  build holds a permutation or *)
(* a code and what perm_to_int and int_to_perm make of it in turn.         *)
(***************************************************************************)
\* _factorial[k]
RECURSIVE _factorial(_)
_factorial(k) == IF k = 0 THEN 1 ELSE k * _factorial(k - 1)

\* for i in range(n): smaller = the x below p[i] not yet used;
\* code += smaller * _factorial[n - 1 - i]
RECURSIVE PermCode(_, _, _)
PermCode(p, i, code) ==
  LET length == Cardinality(DOMAIN p)
  IN IF i >= length THEN code
     ELSE LET used == {p[k] : k \in 0..(i - 1)}
              smaller == Cardinality({x \in 0..(p[i] - 1) : x \notin used})
          IN PermCode(p, i + 1, code + smaller * _factorial(length - 1 - i))

perm_to_int(p) == PermCode(p, 0, 0)

\* elems.pop(idx): the list without its entry idx.
PopAt(elems, idx) ==
  [k \in 0..(Cardinality(DOMAIN elems) - 2) |-> IF k < idx THEN elems[k] ELSE elems[k + 1]]

\* for i in range(n - 1, -1, -1): idx, code = divmod(code, _factorial[i]);
\* perm.append(elems.pop(idx))
RECURSIVE PermAppend(_, _, _, _)
PermAppend(code, i, elems, perm) ==
  IF i < 0 THEN perm
  ELSE PermAppend(code % _factorial(i), i - 1, PopAt(elems, code \div _factorial(i)),
                  Append(perm, elems[code \div _factorial(i)]))

\* perm.reverse(), as a list with indices 0..len-1
Reversed(perm) == [k \in 0..(Len(perm) - 1) |-> perm[Len(perm) - k]]

int_to_perm(code, length) ==
  Reversed(PermAppend(code, length - 1, [k \in 0..(length - 1) |-> k], <<>>))

\* The longest permutation taken.
MaxPerm == 4

PermutationsOf(length) ==
  {p \in [0..(length - 1) -> 0..(length - 1)] :
     \A a, b \in 0..(length - 1) : p[a] = p[b] => a = b}

InitPerm ==
  /\ NewSearch
  /\ parity = zeros
  /\ pc = "perm"
  /\ \E length \in 0..MaxPerm :
       \/ \E p \in PermutationsOf(length) :
            build = [name |-> "perm", stage |-> "perm", length |-> length, perm |-> p,
                     code |-> 0, back |-> <<>>]
       \/ \E code \in 0..(_factorial(length) - 1) :
            build = [name |-> "perm", stage |-> "code", length |-> length, perm |-> <<>>,
                     code |-> code, back |-> 0]

\* code = perm_to_int(p)
PermToInt ==
  /\ pc = "perm"
  /\ \/ /\ build.stage = "perm"
        /\ build' = [build EXCEPT !.stage = "perm_coded", !.code = perm_to_int(build.perm)]
     \/ /\ build.stage = "code_permuted"
        /\ build' = [build EXCEPT !.stage = "code_back", !.back = perm_to_int(build.perm)]
  /\ UNCHANGED <<pc, call, arrays, frame, frame_td, s, clock, result, ev, timeRead, exact>>

\* p = int_to_perm(code, n)
IntToPerm ==
  /\ pc = "perm"
  /\ \/ /\ build.stage = "perm_coded"
        /\ build' = [build EXCEPT !.stage = "perm_back",
                                  !.back = int_to_perm(build.code, build.length)]
     \/ /\ build.stage = "code"
        /\ build' = [build EXCEPT !.stage = "code_permuted",
                                  !.perm = int_to_perm(build.code, build.length)]
  /\ UNCHANGED <<pc, call, arrays, frame, frame_td, s, clock, result, ev, timeRead, exact>>

NextPerm == PermToInt \/ IntToPerm

SpecPerm == InitPerm /\ [][NextPerm]_vars

\* C29: perm_to_int and int_to_perm are inverse to each other: for a
\* permutation p of 0..n-1, perm_to_int(p) is in 0..n!-1 and
\* int_to_perm(perm_to_int(p), n) = p; for a code c in 0..n!-1,
\* perm_to_int(int_to_perm(c, n)) = c.
C29_PermInverse ==
  pc = "perm" =>
    /\ build.stage = "perm_coded" => build.code \in 0..(_factorial(build.length) - 1)
    /\ build.stage = "perm_back" => build.back = build.perm
    /\ build.stage = "code_back" => build.back = build.code

(***************************************************************************)
(* bitcube.py: BitPackedCubieCube, a cubie cube in the three integers pc,  *)
(* pe and orie.  build holds a cubie cube and what the conversions make of *)
(* it in turn.                                                             *)
(***************************************************************************)
\* for i in range(7): coro = coro * 3 + co[i]
RECURSIVE PackTwists(_, _, _)
PackTwists(co, i, coro) ==
  IF i >= 7 THEN coro ELSE PackTwists(co, i + 1, coro * 3 + co[i])

\* for idx in reversed(...): eoro = (eoro << 1) | (eo[idx] & 1), from index
\* i down to 0
RECURSIVE PackFlips(_, _, _)
PackFlips(eo, i, eoro) ==
  IF i < 0 THEN eoro ELSE PackFlips(eo, i - 1, BitOr(eoro * 2, eo[i] % 2))

\* BitPackedCubieCube._encode_orientations(co, eo)
_encode_orientations(co, eo) ==
  BitOr(PackTwists(co, 0, 0) * 4096, PackFlips(eo, Cardinality(DOMAIN eo) - 1, 0))

\* for i in range(6, -1, -1): tmp, rem = divmod(tmp, 3); co[i] = rem
RECURSIVE UnpackTwists(_, _, _)
UnpackTwists(co, i, tmp) ==
  IF i < 0 THEN co ELSE UnpackTwists([co EXCEPT ![i] = tmp % 3], i - 1, tmp \div 3)

\* co[7] = (-sum(co) % 3)
LastTwist(co) == [co EXCEPT ![7] = (-SumTo(co, 7)) % 3]

\* [(eoro >> i) & 1 for i in range(12)][::-1]
UnpackFlips(eoro) == [j \in 0..11 |-> (eoro \div (2 ^ (11 - j))) % 2]

\* BitPackedCubieCube._decode_orientations(): co and eo of orie
_decode_orientations(orie) ==
  [co |-> LastTwist(UnpackTwists([i \in 0..7 |-> 0], 6, orie \div 4096)),
   eo |-> UnpackFlips(orie % 4096)]

\* BitPackedCubieCube.from_cubiecube(cc)
from_cubiecube(cc) ==
  [pc |-> perm_to_int(cc.cp), pe |-> perm_to_int(cc.ep),
   orie |-> BitOr(PackTwists(cc.co, 0, 0) * 4096,
                  PackFlips(cc.eo, Cardinality(edge_values) - 1, 0))]

\* BitPackedCubieCube.to_cubiecube()
to_cubiecube(packed) ==
  [cp |-> int_to_perm(packed.pc, 8),
   co |-> LastTwist(UnpackTwists([i \in 0..7 |-> 0], 6, packed.orie \div 4096)),
   ep |-> int_to_perm(packed.pe, 12),
   eo |-> UnpackFlips(packed.orie % 4096)]

\* The cubes packed: the solved cube after up to two face turns.
PackedCubes ==
  {CubieCube} \cup {Scramble(<<m>>) : m \in 0..(N_MOVE - 1)}
    \cup {Scramble(<<m, k>>) : m \in 0..(N_MOVE - 1), k \in {0, 4, 8}}

InitPack ==
  /\ NewSearch
  /\ parity = zeros
  /\ pc = "pack"
  /\ \E c \in PackedCubes :
       build = [name |-> "pack", stage |-> "cube", cube |-> c, packed |-> <<>>,
                back |-> <<>>]

FromCubiecube ==
  /\ pc = "pack" /\ build.stage = "cube"
  /\ build' = [build EXCEPT !.stage = "packed", !.packed = from_cubiecube(build.cube)]
  /\ UNCHANGED <<pc, call, arrays, frame, frame_td, s, clock, result, ev, timeRead, exact>>

ToCubiecube ==
  /\ pc = "pack" /\ build.stage = "packed"
  /\ build' = [build EXCEPT !.stage = "unpacked", !.back = to_cubiecube(build.packed)]
  /\ UNCHANGED <<pc, call, arrays, frame, frame_td, s, clock, result, ev, timeRead, exact>>

EncodeOrientations ==
  /\ pc = "pack" /\ build.stage = "cube"
  /\ build' = [build EXCEPT
                 !.stage = "encoded",
                 !.packed = [pc |-> 0, pe |-> 0,
                             orie |-> _encode_orientations(build.cube.co, build.cube.eo)]]
  /\ UNCHANGED <<pc, call, arrays, frame, frame_td, s, clock, result, ev, timeRead, exact>>

DecodeOrientations ==
  /\ pc = "pack" /\ build.stage = "encoded"
  /\ build' = [build EXCEPT !.stage = "decoded",
                            !.back = _decode_orientations(build.packed.orie)]
  /\ UNCHANGED <<pc, call, arrays, frame, frame_td, s, clock, result, ev, timeRead, exact>>

NextPack == FromCubiecube \/ ToCubiecube \/ EncodeOrientations \/ DecodeOrientations

SpecPack == InitPack /\ [][NextPack]_vars

\* C30: for a legal cubie cube c, from_cubiecube(c).to_cubiecube() has the
\* cp, co, ep and eo of c, and _decode_orientations gives back the co and eo
\* that _encode_orientations packed, each edge flip at its own index.
C30_PackRoundTrip ==
  pc = "pack" =>
    /\ build.stage = "unpacked" => build.back = build.cube
    /\ build.stage = "decoded" =>
         (build.back.co = build.cube.co /\ build.back.eo = build.cube.eo)

====
